---- MODULE Spec2Model ----
(***************************************************************************)
(* A model of the relationship views and of the inclusion of related      *)
(* resources of Flask-Restless-NG                                         *)
(* (flask_restless/views/relationships.py, flask_restless/views/base.py). *)
(*                                                                         *)
(* The owning resource is an Article (tests/test_jsonapi/models.py): it   *)
(* has the to-many relationship "comments" (of Comment) and the to-one    *)
(* relationship "author" (of Person).  A RelationshipAPI view works on a  *)
(* SQLAlchemy session it was constructed with; the session keeps the      *)
(* loaded instance between requests, and commit() / rollback() move data  *)
(* between the loaded instance and the database.                          *)
(***************************************************************************)
EXTENDS Integers, Sequences, FiniteSets, TLC

\* ---------------------------------------------------------------- bounds
\* related resources 1..NumExisting exist in the database
NumExisting == 2
\* longest list of resource identifier objects in a request document
MaxBatch == 2
\* number of preprocessors, and of postprocessors, registered for a method
NumProcessors == 2

\* articles, comments and persons in the database of the inclusion requests
NumArticles == 2
NumComments == 2
NumPersons == 1
\* most segments of an inclusion path
MaxPathLen == 3
\* most paths in an include parameter
MaxPaths == 2
\* most rows of a paginated collection
MaxTotal == 4
\* largest max_page_size an API is created with
MaxPageSize == 3
\* largest page number requested
MaxPageNumber == 3
\* articles in the table searched
NumRows == 2
\* deepest nesting of a filter object ("and" / "or" around filter objects)
MaxDepth == 3
\* most filter objects in a list
MaxFilters == 2
\* most keys in a sort parameter
MaxSortKeys == 2
NumRequestsInFlight == 2

VARIABLES
    allow_to_many_replacement,               \* APIBase.allow_to_many_replacement
    allow_delete_from_to_many_relationships, \* RelationshipAPI.allow_delete_...
    session,     \* the SQLAlchemy session of the view
    request,     \* the request being answered
    response,    \* its response
    trace,       \* what the handler did on the session while handling it
    graph,             \* the articles, comments and persons of the database
    default_includes,  \* APIBase.default_includes
    fetch,             \* the primary data and the include parameter of a GET
    document,          \* the compound document of its response
    collection,        \* a collection, its API's page sizes and its database
    page_request,      \* the page parameters of a GET of the collection
    page,              \* the page of its response
    table,             \* the rows of the model searched
    search_request,    \* the filter and sort parameters of a GET
    search_result,     \* the query search() builds for it, or its error
    threads            \* the requests in flight, each at a step of its handler

relvars == <<allow_to_many_replacement, allow_delete_from_to_many_relationships,
             session, request, response, trace>>
inclvars == <<graph, default_includes, fetch, document>>
pagevars == <<collection, page_request, page>>
searchvars == <<table, search_request, search_result>>
concvars == <<threads>>
vars == <<relvars, inclvars, pagevars, searchvars, concvars>>
\* the variables the relationship requests leave alone, and those the
\* inclusion requests leave alone
outside_relationships == <<inclvars, pagevars, searchvars, concvars>>
outside_inclusion == <<relvars, pagevars, searchvars, concvars>>
outside_pagination == <<relvars, inclvars, searchvars, concvars>>
outside_search == <<relvars, inclvars, pagevars, concvars>>

\* ------------------------------------------------------------ the schema
ExistingIds == 1..NumExisting
\* two identifiers that name no resource
MissingIds == {NumExisting + 1, NumExisting + 2}
Ids == ExistingIds \cup MissingIds

\* the primary key of the article the relationship URLs are about
TheArticle == 1

TypeNames == {"comment", "person"}
RelationNames == {"comments", "author"}

\* hasattr(instance, relation_name)
hasattr(relation_name) == relation_name \in RelationNames

\* get_related_model(model, relation_name) followed by
\* api_manager.collection_name(related_model)
collection_name(relation_name) ==
    IF relation_name = "comments" THEN "comment" ELSE "person"

\* is_like_list(instance, relation_name)
is_like_list(relation_name) == relation_name = "comments"

\* get_by(session, model, id, primary_key) is not None, for a related model
get_by(id) == id \in ExistingIds

\* get_by(session, self.model, resource_id, primary_key) is not None
get_instance(resource_id) == resource_id = TheArticle

Range(s) == {s[i] : i \in 1..Len(s)}

RECURSIVE SetToSeq(_)
SetToSeq(S) ==
    IF S = {} THEN <<>>
    ELSE LET m == CHOOSE x \in S : \A y \in S : x <= y
         IN <<m>> \o SetToSeq(S \ {m})

\* list.remove(x): drops the first occurrence of x
RECURSIVE RemoveFirst(_, _)
RemoveFirst(s, x) ==
    IF s = <<>> THEN <<>>
    ELSE IF Head(s) = x THEN Tail(s)
    ELSE <<Head(s)>> \o RemoveFirst(Tail(s), x)

\* ------------------------------------------------------------ the session
\* The state of the article in the database and as loaded in the session.
\* "comments" is the list the to-many relationship holds, "author" the set
\* of at most one person the to-one relationship points to.
Relationships == [comments : Seq(ExistingIds), author : SUBSET ExistingIds]

\* session.commit(): the loaded state becomes the state of the database
commit(s) ==
    [committed |-> s.instance, instance |-> s.instance, dirty |-> FALSE,
     active |-> s.active]

\* session.rollback(): the loaded state is discarded
rollback(s) ==
    [committed |-> s.committed, instance |-> s.committed, dirty |-> FALSE,
     active |-> TRUE]

\* a flush or commit that the database refuses: the transaction is over
\* and the session is not active until it is rolled back
refused(s) == [s EXCEPT !.active = FALSE]

\* session.flush(): pending changes are sent, nothing is modified any more
flush(s) == [s EXCEPT !.dirty = FALSE]

\* the session holds a change that the database does not
Pending(s) == s.instance # s.committed

\* ----------------------------------------------------------- the requests
\* a resource identifier object of a request document
Identifiers == [type : TypeNames, id : Ids]
\* resource identifier objects that lack a member
Malformed == {[id |-> 1], [type |-> "comment"]}
Entries == Identifiers \cup Malformed

Batches == UNION {[1..n -> Entries] : n \in 0..MaxBatch}

\* the body of a request: not JSON, or a document whose "data" member is
\* null, one resource identifier object, or a list of them
Bodies ==
    {[kind |-> "undecodable", data |-> <<>>], [kind |-> "null", data |-> <<>>]}
    \cup {[kind |-> "object", data |-> <<e>>] : e \in Entries}
    \cup {[kind |-> "list", data |-> b] : b \in Batches}

\* error(detail=...), with the resource identifier the detail names
error(detail, type, id) == [detail |-> detail, type |-> type, id |-> id]

\* errors_response(status, errors)
errors_response(status, cause, errors) ==
    [status |-> status, cause |-> cause, errors |-> errors,
     members |-> {"errors", "jsonapi"}]

\* error_response(status, detail=...)
error_response(status, cause) ==
    errors_response(status, cause, <<error(cause, "", 0)>>)

\* What a handler hands back: the response, the session as it leaves it,
\* the calls it made in their order ("pre" and "post" are one invocation of
\* a preprocessor or postprocessor each), and was_deleted (DELETE only).
Outcome(resp, s, events, was_deleted) ==
    [response |-> resp, session |-> s, events |-> events,
     was_deleted |-> was_deleted, raised |-> <<>>]

\* the handler is left by an SQLAlchemyError with this message instead
Raise(s, events, message) ==
    [response |-> [status |-> 0, cause |-> "none", errors |-> <<>>, members |-> {}],
     session |-> s, events |-> events, was_deleted |-> FALSE,
     raised |-> message]

\* for preprocessor in self.preprocessors[...]: the processors invoked
\* until one raises ProcessingException (raise_at = 0: none raises)
invoked(raise_at, event) ==
    [i \in 1..(IF raise_at = 0 THEN NumProcessors ELSE raise_at) |-> event]

status_400(r) == error_response(400, r.exception.detail)

\* catch_processing_exceptions: the error response for the exception, from
\* the status and the detail the processor gave it
processing_error(r) == error_response(r.exception.status, r.exception.detail)

any_type(type_, relation_name) == TRUE

\* "type_ != collection_name" negated: the type of a resource identifier
\* object is the collection name of the model of the relationship
type_matches(type_, relation_name) == type_ = collection_name(relation_name)

\* an exception no handler catches: the response of the framework
server_error ==
    [status |-> 500, cause |-> "crash", errors |-> <<>>, members |-> {}]

\* return {}, 204, {}
no_content == [status |-> 204, cause |-> "ok", errors |-> <<>>, members |-> {}]

\* flush, postprocessors and commit, the end of post and patch
finish(s, r, pre) ==
    IF r.fails # <<>> /\ s.dirty
    THEN Raise(refused(s), pre \o <<"flush">>, r.fails)
    ELSE IF r.post_raise > 0
    THEN Outcome(processing_error(r), flush(s),
                 pre \o <<"flush">> \o invoked(r.post_raise, "post"), FALSE)
    ELSE Outcome(no_content, commit(flush(s)),
                 pre \o <<"flush">> \o invoked(0, "post") \o <<"commit">>, FALSE)

\* ------------------------------------------------------------------ POST
\* a membership test that never finds the resource
never_related(new_value, related_value) == FALSE

\* "new_value in related_value"
already_related(new_value, related_value) == new_value \in Range(related_value)

\* The loop "for rel in data" of RelationshipAPI.post: each entry is checked
\* and then appended before the next entry is looked at.
RECURSIVE post_loop(_, _, _, _)
post_loop(related_value, data, relation_name, rejects) ==
    IF data = <<>> THEN [cause |-> "ok", status |-> 204, value |-> related_value]
    ELSE LET rel == Head(data) IN
        IF "type" \notin DOMAIN rel
        THEN [cause |-> "malformed", status |-> 400, value |-> related_value]
        ELSE IF "id" \notin DOMAIN rel
        THEN [cause |-> "malformed", status |-> 400, value |-> related_value]
        ELSE IF ~type_matches(rel.type, relation_name)
        THEN [cause |-> "type", status |-> 409, value |-> related_value]
        ELSE IF ~get_by(rel.id)
        THEN [cause |-> "not_found", status |-> 404, value |-> related_value]
        ELSE IF ~is_like_list(relation_name)
        \* "new_value not in related_value" on a to-one value: TypeError
        THEN [cause |-> "crash", status |-> 500, value |-> related_value]
        ELSE IF ~already_related(rel.id, related_value)
        THEN IF rel.id \in rejects
             THEN [cause |-> "validation", status |-> 400, value |-> related_value]
             ELSE post_loop(Append(related_value, rel.id), Tail(data),
                            relation_name, rejects)
        ELSE post_loop(related_value, Tail(data), relation_name, rejects)

\* RelationshipAPI.post
post(s, r) ==
    IF r.body.kind = "undecodable"
    THEN Outcome(error_response(400, "decode"), s, <<>>, FALSE)
    ELSE IF r.pre_raise > 0
    THEN Outcome(processing_error(r), s, invoked(r.pre_raise, "pre"), FALSE)
    ELSE LET pre == invoked(0, "pre") IN
    IF ~get_instance(r.resource_id)
    THEN Outcome(error_response(404, "no_instance"), s, pre, FALSE)
    ELSE IF ~hasattr(r.relation_name)
    THEN Outcome(error_response(404, "no_relation"), s, pre, FALSE)
    ELSE IF r.body.kind = "null"
    \* "for rel in None": TypeError
    THEN Outcome(server_error, s, pre, FALSE)
    ELSE IF r.body.kind = "object"
    \* "for rel in data" walks the member names of the object
    THEN Outcome(error_response(400, "malformed"), s, pre, FALSE)
    ELSE LET old == s.instance.comments
             l == post_loop(old, r.body.data, r.relation_name, r.rejects)
             s1 == [s EXCEPT !.instance.comments = l.value,
                             !.dirty = s.dirty \/ l.value # old]
         IN IF l.cause = "validation"
            THEN Outcome(error_response(400, "validation"), rollback(s1),
                         pre \o <<"rollback">>, FALSE)
            ELSE IF l.cause = "crash"
            THEN Outcome(server_error, s1, pre, FALSE)
            ELSE IF l.cause # "ok"
            THEN Outcome(error_response(l.status, l.cause), s1, pre, FALSE)
            ELSE finish(s1, r, pre)

\* ----------------------------------------------------------------- PATCH
\* The loop "for rel in data" of RelationshipAPI.patch for a list: every
\* entry is checked and looked up; nothing is assigned in the loop.
RECURSIVE patch_loop(_, _)
patch_loop(data, relation_name) ==
    IF data = <<>> THEN [cause |-> "ok", status |-> 204, replacement |-> <<>>]
    ELSE LET rel == Head(data) IN
        IF "type" \notin DOMAIN rel
        THEN [cause |-> "malformed", status |-> 400, replacement |-> <<>>]
        ELSE IF "id" \notin DOMAIN rel
        THEN [cause |-> "malformed", status |-> 400, replacement |-> <<>>]
        ELSE IF ~type_matches(rel.type, relation_name)
        THEN [cause |-> "type", status |-> 409, replacement |-> <<>>]
        ELSE LET rest == patch_loop(Tail(data), relation_name) IN
             IF rest.cause # "ok" THEN rest
             ELSE [rest EXCEPT !.replacement =
                       <<[rel |-> rel, found |-> get_by(rel.id)]>> \o @]

\* an error for the first entry whose resource was not found only
RECURSIVE first_not_found_error(_)
first_not_found_error(replacement) ==
    IF replacement = <<>> THEN <<>>
    ELSE LET x == Head(replacement) IN
         IF x.found THEN first_not_found_error(Tail(replacement))
         ELSE <<error("not_found", x.rel.type, x.rel.id)>>

\* the errors of the 404 response of a list replacement: one for each
\* entry of the list whose resource was not found
RECURSIVE not_found_errors(_)
not_found_errors(replacement) ==
    IF replacement = <<>> THEN <<>>
    ELSE LET x == Head(replacement) IN
         (IF x.found THEN <<>>
          ELSE <<error("not_found", x.rel.type, x.rel.id)>>)
         \o not_found_errors(Tail(replacement))

\* the replacement of a to-many relationship by a list of identifiers
replace_to_many(s, r, pre) ==
    LET l == patch_loop(r.body.data, r.relation_name)
        ids == [i \in 1..Len(l.replacement) |-> l.replacement[i].rel.id]
    IN IF l.cause # "ok"
       THEN Outcome(error_response(l.status, l.cause), s, pre, FALSE)
       ELSE IF \E i \in 1..Len(l.replacement) : ~l.replacement[i].found
       THEN Outcome(errors_response(404, "not_found",
                                    not_found_errors(l.replacement)),
                    s, pre, FALSE)
       ELSE IF ~is_like_list(r.relation_name)
       \* a list assigned to a to-one relationship: the ORM raises
       THEN Outcome(server_error, s, pre, FALSE)
       ELSE IF Range(ids) \cap r.rejects # {}
       THEN Outcome(error_response(400, "validation"), rollback(s),
                    pre \o <<"rollback">>, FALSE)
       ELSE finish([s EXCEPT !.instance.comments = ids, !.dirty = TRUE], r, pre)

\* a replacement that does not ask whether replacement is enabled
patch_list_unguarded(s, r, pre, allow) == replace_to_many(s, r, pre)

\* the branch of RelationshipAPI.patch for a list of identifiers
patch_list(s, r, pre, allow) ==
    IF ~allow
    THEN Outcome(error_response(403, "forbidden"), s, pre, FALSE)
    ELSE replace_to_many(s, r, pre)

\* the branch of RelationshipAPI.patch for one resource identifier object
patch_object(s, r, pre) ==
    LET data == r.body.data[1] IN
    IF "type" \notin DOMAIN data
    THEN Outcome(error_response(400, "malformed"), s, pre, FALSE)
    ELSE IF "id" \notin DOMAIN data
    THEN Outcome(error_response(400, "malformed"), s, pre, FALSE)
    ELSE IF ~type_matches(data.type, r.relation_name)
    THEN Outcome(error_response(409, "type"), s, pre, FALSE)
    ELSE IF ~get_by(data.id)
    THEN Outcome(errors_response(404, "not_found",
                                 <<error("not_found", data.type, data.id)>>),
                 s, pre, FALSE)
    ELSE IF is_like_list(r.relation_name)
    \* one object assigned to a to-many relationship: the ORM raises
    THEN Outcome(server_error, s, pre, FALSE)
    ELSE IF data.id \in r.rejects
    THEN Outcome(error_response(400, "validation"), rollback(s),
                 pre \o <<"rollback">>, FALSE)
    ELSE finish([s EXCEPT !.instance.author = {data.id}, !.dirty = TRUE], r, pre)

\* RelationshipAPI.patch
patch(s, r, allow) ==
    IF r.body.kind = "undecodable"
    THEN Outcome(error_response(400, "decode"), s, <<>>, FALSE)
    ELSE IF r.pre_raise > 0
    THEN Outcome(processing_error(r), s, invoked(r.pre_raise, "pre"), FALSE)
    ELSE LET pre == invoked(0, "pre") IN
    IF ~get_instance(r.resource_id)
    THEN Outcome(error_response(404, "no_instance"), s, pre, FALSE)
    ELSE IF ~hasattr(r.relation_name)
    THEN Outcome(error_response(404, "no_relation"), s, pre, FALSE)
    ELSE IF r.body.kind = "null"
    THEN IF is_like_list(r.relation_name)
         THEN Outcome(error_response(400, "null_to_many"), s, pre, FALSE)
         ELSE finish([s EXCEPT !.instance.author = {}, !.dirty = TRUE], r, pre)
    ELSE IF r.body.kind = "list"
    THEN patch_list(s, r, pre, allow)
    ELSE patch_object(s, r, pre)

\* ---------------------------------------------------------------- DELETE
\* The loop "for rel in data" of RelationshipAPI.delete: every entry is
\* checked and looked up; the resources found are collected in to_remove,
\* the identifiers of the others in not_found.
RECURSIVE delete_loop(_, _)
delete_loop(data, relation_name) ==
    IF data = <<>>
    THEN [cause |-> "ok", status |-> 204, not_found |-> <<>>, to_remove |-> <<>>]
    ELSE LET rel == Head(data)
             bad(cause, status) == [cause |-> cause, status |-> status,
                                    not_found |-> <<>>, to_remove |-> <<>>]
         IN
        IF "type" \notin DOMAIN rel THEN bad("malformed", 400)
        ELSE IF "id" \notin DOMAIN rel THEN bad("malformed", 400)
        ELSE IF ~type_matches(rel.type, relation_name) THEN bad("type", 409)
        ELSE LET rest == delete_loop(Tail(data), relation_name) IN
             IF rest.cause # "ok" THEN rest
             ELSE IF ~get_by(rel.id)
             THEN [rest EXCEPT !.not_found =
                       <<error("not_found", rel.type, rel.id)>> \o @]
             ELSE [rest EXCEPT !.to_remove = <<rel.id>> \o @]

\* "for resource in to_remove: relation.remove(resource)", a ValueError
\* (the resource is not in the list) being ignored
RECURSIVE remove_all(_, _)
remove_all(relation, to_remove) ==
    IF to_remove = <<>> THEN relation
    ELSE remove_all(RemoveFirst(relation, Head(to_remove)), Tail(to_remove))

\* session.dirty holding the owner only when a resource left the list
dirty_when_removed(dirty, relation, to_remove) ==
    dirty \/ Range(to_remove) \cap Range(relation) # {}

\* What relation.remove(resource) does to session.dirty: the collection
\* fires its remove event, which marks the owner as modified, before it
\* looks for the resource in the list.
dirty_after_remove(dirty, relation, to_remove) ==
    dirty \/ to_remove # <<>>

\* RelationshipAPI.delete
delete(s, r, allow) ==
    IF ~allow
    THEN Outcome(error_response(403, "forbidden"), s, <<>>, FALSE)
    ELSE IF r.body.kind = "undecodable"
    THEN Outcome(error_response(400, "decode"), s, <<>>, FALSE)
    ELSE IF r.pre_raise > 0
    THEN Outcome(processing_error(r), s, invoked(r.pre_raise, "pre"), FALSE)
    ELSE LET pre == invoked(0, "pre") IN
    IF ~get_instance(r.resource_id) \/ ~hasattr(r.relation_name)
    THEN Outcome(error_response(404, "no_relation"), s, pre, FALSE)
    ELSE IF r.body.kind = "null"
    \* "for rel in None": TypeError
    THEN Outcome(server_error, s, pre, FALSE)
    ELSE IF r.body.kind = "object"
    \* "for rel in data" walks the member names of the object
    THEN Outcome(error_response(400, "malformed"), s, pre, FALSE)
    ELSE LET l == delete_loop(r.body.data, r.relation_name) IN
         IF l.cause # "ok"
         THEN Outcome(error_response(l.status, l.cause), s, pre, FALSE)
         ELSE IF l.not_found # <<>>
         THEN Outcome(errors_response(404, "not_found", l.not_found), s, pre, FALSE)
         ELSE IF ~is_like_list(r.relation_name) /\ l.to_remove # <<>>
         \* the value of a to-one relationship has no remove()
         THEN Outcome(server_error, s, pre, FALSE)
         ELSE LET relation == s.instance.comments
                  s1 == [s EXCEPT
                            !.instance.comments = remove_all(relation, l.to_remove),
                            !.dirty = dirty_after_remove(s.dirty, relation,
                                                         l.to_remove)]
                  was_deleted == s1.dirty
                  s2 == commit(s1)
              IN IF r.fails # <<>> /\ s1.dirty
                 THEN Raise(refused(s1), pre \o <<"commit">>, r.fails)
                 ELSE IF r.post_raise > 0
                 THEN Outcome(processing_error(r), s2,
                              pre \o <<"commit">> \o invoked(r.post_raise, "post"),
                              was_deleted)
                 ELSE Outcome(IF was_deleted THEN no_content
                              ELSE error_response(404, "nothing_deleted"),
                              s2, pre \o <<"commit">> \o invoked(0, "post"),
                              was_deleted)

\* values of the variables of the inclusion of related resources while
\* relationship requests are looked at
NoGraph == [author |-> <<>>, article |-> <<>>]
NoInclude == [given |-> FALSE, paths |-> {}]
NoFetch == [kind |-> "none", instances |-> {}, include |-> NoInclude]
NoDocument == [status |-> 0, included |-> <<>>]
NoInclusion ==
    /\ graph = NoGraph
    /\ default_includes = NoInclude
    /\ fetch = NoFetch
    /\ document = NoDocument

\* values of the variables of pagination while other requests are looked at
NoCollection ==
    [rows |-> <<>>, page_size |-> 0, max_page_size |-> 0, backend |-> "sqlite"]
NoPageRequest == [endpoint |-> "none", size |-> {}, number |-> {}]
NoPage ==
    [status |-> 0, cause |-> "none", items |-> <<>>, num_results |-> 0,
     first |-> {}, last |-> {}, prev |-> {}, next |-> {},
     queries |-> <<>>, limit |-> {}, offset |-> {}]
NoPagination ==
    /\ collection = NoCollection
    /\ page_request = NoPageRequest
    /\ page = NoPage

\* values of the variables of searching while other requests are looked at
NoSearchRequest == [filters |-> <<>>, sort |-> {<<"none">>}]
NoResult ==
    [status |-> 0, detail |-> "", field |-> "", executed |-> FALSE,
     order_by |-> <<>>, rows |-> <<>>, members |-> {}]
NoSearch ==
    /\ table = <<>>
    /\ search_request = NoSearchRequest
    /\ search_result = NoResult
\* a request in flight that has not begun
Idle ==
    [pc |-> "idle", id |-> 0, fails |-> FALSE, added |-> FALSE,
     flushed |-> FALSE, saw |-> FALSE, took |-> {}, overlapped |-> FALSE,
     status |-> 0]
NoConcurrency == threads = [t \in 1..NumRequestsInFlight |-> Idle]

\* ------------------------------------------------------------ the actions
\* ProcessingException(): status 400 unless the processor gives another
BadProcessing == [status |-> 400, detail |-> "processing"]

NoRequest ==
    [method |-> "none", resource_id |-> TheArticle, relation_name |-> "none",
     body |-> [kind |-> "null", data |-> <<>>], rejects |-> {},
     pre_raise |-> 0, post_raise |-> 0, exception |-> BadProcessing,
     fails |-> <<>>]

NoResponse == [status |-> 0, cause |-> "none", errors |-> <<>>, members |-> {}]

\* the requests of a method: every body sent to the relationship of the
\* article (with or without a validator of the model that rejects comment
\* or person 1), the requests to a missing article or a missing
\* relationship, and the requests during which a processor raises
RequestsOn(method, relation_name, bodies) ==
    [method : {method}, resource_id : {TheArticle}, relation_name : {relation_name},
     body : bodies, rejects : {{}, {1}}, pre_raise : {0}, post_raise : {0},
     exception : {BadProcessing}, fails : {<<>>}]
    \cup
    {[method |-> method, resource_id |-> a[1], relation_name |-> a[2],
      body |-> [kind |-> "list", data |-> <<>>], rejects |-> {},
      pre_raise |-> 0, post_raise |-> 0, exception |-> BadProcessing,
      fails |-> <<>>] :
        a \in ((MissingIds \X {relation_name}) \cup {<<TheArticle, "bogus">>})}
    \cup
    {[method |-> method, resource_id |-> TheArticle, relation_name |-> relation_name,
      body |-> b, rejects |-> {}, pre_raise |-> h[1], post_raise |-> h[2],
      exception |-> BadProcessing, fails |-> <<>>] :
        b \in {x \in bodies : /\ x.kind \in {"object", "list"}
                               /\ \A i \in 1..Len(x.data) :
                                      /\ x.data[i] \in Identifiers
                                      /\ x.data[i].type = collection_name(relation_name)
                                      /\ get_by(x.data[i].id)},
        h \in ((0..NumProcessors) \X (0..NumProcessors)) \ {<<0, 0>>}}

\* CONFLICT_INDICATORS, and is_conflict(exception) on the message of the
\* exception, held as the sequence of its phrases
CONFLICT_INDICATORS == {"conflicts with", "UNIQUE constraint failed", "is not unique"}
is_conflict(message) == \E i \in 1..Len(message) : message[i] \in CONFLICT_INDICATORS

\* the messages of the exceptions a refused flush or commit raises
Messages ==
    {<<"(sqlite3.IntegrityError)", "UNIQUE constraint failed", "comment.id">>,
     <<"(sqlite3.IntegrityError)", "FOREIGN KEY constraint failed">>}

\* what a session that is not active raises at the first query
InactiveMessage == <<"This Session's transaction has been rolled back">>

without_rollback(out) ==
    IF out.raised = <<>> THEN out
    ELSE Outcome(error_response(IF is_conflict(out.raised) THEN 409 ELSE 400,
                                "integrity"),
                 out.session, out.events, FALSE)

\* catch_integrity_errors(session): what the decorated method hands back
\* when the method itself hands back out
catch_integrity_errors(out) ==
    IF out.raised = <<>> THEN out
    ELSE Outcome(error_response(IF is_conflict(out.raised) THEN 409 ELSE 400,
                                "integrity"),
                 rollback(out.session), out.events \o <<"rollback">>, FALSE)

\* The view handles request r.
Handle(r) ==
    /\ LET out == catch_integrity_errors(
                     IF ~session.active THEN Raise(session, <<>>, InactiveMessage)
                     ELSE CASE r.method = "POST" -> post(session, r)
                            [] r.method = "PATCH" ->
                                   patch(session, r, allow_to_many_replacement)
                            [] r.method = "DELETE" ->
                                   delete(session, r,
                                          allow_delete_from_to_many_relationships))
       IN /\ session' = out.session
          /\ request' = r
          /\ response' = out.response
          /\ trace' = [before |-> session, events |-> out.events,
                       was_deleted |-> out.was_deleted,
                       after_refusal |-> trace.after_refusal]
          /\ UNCHANGED <<allow_to_many_replacement,
                         allow_delete_from_to_many_relationships,
                         outside_relationships>>

\* mime_renderer: the response is rendered and sent, the request is over;
\* the view and its session stay for the next request
Respond ==
    /\ request # NoRequest
    /\ request' = NoRequest
    /\ response' = NoResponse
    /\ trace' = [before |-> session, events |-> <<>>, was_deleted |-> FALSE,
                 after_refusal |-> request.fails # <<>> /\ response.cause = "integrity"]
    /\ UNCHANGED <<allow_to_many_replacement,
                   allow_delete_from_to_many_relationships, session,
                   outside_relationships>>

\* The views are constructed with or without the two permissions; the
\* session has loaded the article as the database holds it.
InitWith(comments, author) ==
    /\ allow_to_many_replacement \in BOOLEAN
    /\ allow_delete_from_to_many_relationships \in BOOLEAN
    /\ \E c \in comments, a \in author :
          session = [committed |-> [comments |-> c, author |-> a],
                     instance |-> [comments |-> c, author |-> a],
                     dirty |-> FALSE, active |-> TRUE]
    /\ request = NoRequest
    /\ response = NoResponse
    /\ trace = [before |-> session, events |-> <<>>, was_deleted |-> FALSE,
                after_refusal |-> FALSE]
    /\ NoInclusion
    /\ NoPagination
    /\ NoSearch
    /\ NoConcurrency

\* ---- requests on the to-many relationship /article/1/relationships/comments
\* (one request is handled at a time)
InitToMany == InitWith({SetToSeq(S) : S \in SUBSET ExistingIds}, {{}})

PostToMany ==
    /\ request = NoRequest
    /\ \E r \in RequestsOn("POST", "comments", Bodies) : Handle(r)
PatchToMany ==
    /\ request = NoRequest
    /\ \E r \in RequestsOn("PATCH", "comments", Bodies) : Handle(r)
DeleteFromToMany ==
    /\ request = NoRequest
    /\ \E r \in RequestsOn("DELETE", "comments", Bodies) : Handle(r)

NextToMany == PostToMany \/ PatchToMany \/ DeleteFromToMany \/ Respond

SpecToMany == InitToMany /\ [][NextToMany]_vars

\* ---- requests on the to-many relationship with processors that raise
\* ProcessingException and a database that refuses what is sent to it
ProcessingExceptions == {BadProcessing, [status |-> 403, detail |-> "not yours"]}

\* requests whose documents are lists of comments that exist
RequestsWithFaults(method) ==
    {[method |-> method, resource_id |-> TheArticle, relation_name |-> "comments",
      body |-> [kind |-> "list", data |-> d], rejects |-> {},
      pre_raise |-> h[1], post_raise |-> h[2], exception |-> e, fails |-> f] :
        d \in UNION {[1..n -> [type : {"comment"}, id : ExistingIds]] : n \in 0..MaxBatch},
        h \in (0..NumProcessors) \X (0..NumProcessors),
        e \in ProcessingExceptions,
        f \in {<<>>} \cup Messages}

PostWithFaults ==
    /\ request = NoRequest
    /\ \E r \in RequestsWithFaults("POST") : Handle(r)
PatchWithFaults ==
    /\ request = NoRequest
    /\ \E r \in RequestsWithFaults("PATCH") : Handle(r)
DeleteWithFaults ==
    /\ request = NoRequest
    /\ \E r \in RequestsWithFaults("DELETE") : Handle(r)

NextFaults == PostWithFaults \/ PatchWithFaults \/ DeleteWithFaults \/ Respond

SpecFaults == InitToMany /\ [][NextFaults]_vars

\* ---- requests on the to-one relationship /article/1/relationships/author
\* (a null or one resource identifier object; a list is for a to-many
\* relationship)
InitToOne == InitWith({<<>>}, {{}} \cup {{p} : p \in ExistingIds})

PatchToOne ==
    /\ request = NoRequest
    /\ \E r \in RequestsOn("PATCH", "author", {b \in Bodies : b.kind # "list"}) :
          Handle(r)

NextToOne == PatchToOne \/ Respond

SpecToOne == InitToOne /\ [][NextToOne]_vars

\* ---- requests in flight at the same time
\* ModelView.__init__ keeps the session the view is constructed with, and
\* every request of the view works on self.session: the view neither
\* acquires a session when a request starts nor releases one when it ends.
\* The API is created with a Session object (as in tests/conftest.py), so
\* the requests in flight work on the one session. Each is a POST to
\* /article/1/relationships/comments with one resource identifier object,
\* taken a step at a time at the calls it makes on the session: the loop
\* that looks the resource up and appends it, session.flush(), and after
\* the postprocessors session.commit(); a flush the database refuses is
\* followed by the session.rollback() of catch_integrity_errors.
Threads == 1..NumRequestsInFlight

\* another request has a change pending in the session
OthersPending(t) == \E u \in Threads \ {t} : threads[u].added

\* another request has a pending change that no flush has sent yet
OthersUnflushed(t) ==
    \E u \in Threads \ {t} : threads[u].added /\ ~threads[u].flushed

\* the resource is in the relationship as the session has it only because
\* another request appended it
PendingFromOther(t, id) ==
    /\ id \notin Range(session.committed.comments)
    /\ \E u \in Threads \ {t} : threads[u].added /\ threads[u].id = id

\* the request reaches the view
BeginRequest(t) ==
    /\ threads[t].pc = "idle"
    /\ \E id \in ExistingIds \cup {NumExisting + 1}, fails \in BOOLEAN :
          LET overlaps == \E u \in Threads \ {t} : threads[u].pc # "idle" IN
          threads' = [u \in Threads |->
              IF u = t
              THEN [Idle EXCEPT !.pc = "loop", !.id = id, !.fails = fails,
                                !.overlapped = overlaps]
              ELSE IF threads[u].pc # "idle"
              THEN [threads[u] EXCEPT !.overlapped = TRUE]
              ELSE threads[u]]
    /\ UNCHANGED <<relvars, inclvars, pagevars, searchvars>>

\* "for rel in data": get_by, the 404 of a resource that does not exist,
\* and related_value.append(new_value) unless new_value is in related_value
AppendRelated(t) ==
    /\ threads[t].pc = "loop"
    /\ LET id == threads[t].id IN
       IF ~get_by(id)
       THEN /\ threads' = [threads EXCEPT ![t].pc = "done", ![t].status = 404]
            /\ UNCHANGED session
       ELSE IF already_related(id, session.instance.comments)
       THEN /\ threads' = [threads EXCEPT ![t].pc = "flush",
                                          ![t].saw = PendingFromOther(t, id)]
            /\ UNCHANGED session
       ELSE /\ threads' = [threads EXCEPT ![t].pc = "flush", ![t].added = TRUE]
            /\ session' = [session EXCEPT
                              !.instance.comments = Append(@, id),
                              !.dirty = TRUE]
    /\ UNCHANGED <<allow_to_many_replacement,
                   allow_delete_from_to_many_relationships, request, response,
                   trace, inclvars, pagevars, searchvars>>

\* self.session.flush(): everything pending in the session is sent. When
\* the database refuses it, catch_integrity_errors rolls the session back,
\* which discards everything pending in it.
FlushSession(t) ==
    /\ threads[t].pc = "flush"
    /\ IF threads[t].fails /\ session.dirty
       THEN /\ session' = rollback(refused(session))
            /\ threads' = [u \in Threads |->
                  IF u = t
                  THEN [threads[u] EXCEPT
                           !.pc = "done", !.status = 400, !.added = FALSE,
                           !.took = @ \cup (IF OthersPending(t)
                                            THEN {"rollback"} ELSE {})]
                  ELSE [threads[u] EXCEPT !.added = FALSE]]
       ELSE /\ session' = flush(session)
            /\ threads' = [u \in Threads |->
                  IF u = t
                  THEN [threads[u] EXCEPT
                           !.pc = "commit", !.flushed = threads[u].added,
                           !.took = @ \cup (IF OthersUnflushed(t)
                                            THEN {"flush"} ELSE {})]
                  ELSE [threads[u] EXCEPT !.flushed = threads[u].added]]
    /\ UNCHANGED <<allow_to_many_replacement,
                   allow_delete_from_to_many_relationships, request, response,
                   trace, inclvars, pagevars, searchvars>>

\* the postprocessors, then self.session.commit(): everything pending in
\* the session is committed, and the answer is 204
CommitSession(t) ==
    /\ threads[t].pc = "commit"
    /\ session' = commit(session)
    /\ threads' = [u \in Threads |->
          IF u = t
          THEN [threads[u] EXCEPT
                   !.pc = "done", !.status = 204, !.added = FALSE,
                   !.took = @ \cup (IF OthersPending(t)
                                    THEN {"commit"} ELSE {})]
          ELSE [threads[u] EXCEPT !.added = FALSE]]
    /\ UNCHANGED <<allow_to_many_replacement,
                   allow_delete_from_to_many_relationships, request, response,
                   trace, inclvars, pagevars, searchvars>>

\* the response has been sent
EndRequest(t) ==
    /\ threads[t].pc = "done"
    /\ threads' = [threads EXCEPT ![t] = Idle]
    /\ UNCHANGED <<relvars, inclvars, pagevars, searchvars>>

NextConcurrent ==
    \E t \in Threads : \/ BeginRequest(t)
                    \/ AppendRelated(t)
                    \/ FlushSession(t)
                    \/ CommitSession(t)
                    \/ EndRequest(t)

SpecConcurrent == InitToMany /\ [][NextConcurrent]_vars

\* =================================================== relationship claims
\* the identifiers of the resource identifier objects of the request
RequestIds == {request.body.data[i].id : i \in 1..Len(request.body.data)}

\* the request is for the relationship relation_name of the article
Targets(method, relation_name) ==
    /\ request.method = method
    /\ request.resource_id = TheArticle
    /\ request.relation_name = relation_name

\* every resource identifier object of the request has both members and
\* the type of the relationship
WellTyped ==
    \A i \in 1..Len(request.body.data) :
        /\ request.body.data[i] \in Identifiers
        /\ request.body.data[i].type = collection_name(request.relation_name)

\* no processor raises and no validator of the model rejects a resource of
\* the request
Undisturbed ==
    /\ request.pre_raise = 0
    /\ request.post_raise = 0
    /\ request.rejects \cap RequestIds = {}

\* C1 (as claimed): when an append, replace or remove request is answered
\* with the 409 of the type check or the 404 of the existence check, the
\* relationships as the session holds them are those held before the request.
C1_NoPartialApplication ==
    (request.method \in {"POST", "PATCH", "DELETE"}
        /\ response.cause \in {"type", "not_found"})
    => session.instance = trace.before.instance

\* C2 (as claimed): after the 409 or 404 of a relationship request the
\* session holds no pending change: what it would commit for a later request
\* is what the database already holds.
C2_NothingPendingAfterFailure ==
    (request.method \in {"POST", "PATCH", "DELETE"}
        /\ response.cause \in {"type", "not_found"})
    => ~Pending(session)

\* C3: a POST of existing, correctly typed identifiers to the to-many
\* relationship is answered 204 and leaves the collection as it was, followed
\* by the members of the batch that were not in it, each once; in particular
\* a batch whose members are all present leaves the collection unchanged.
C3_AppendIdempotent ==
    (Targets("POST", "comments") /\ request.body.kind = "list" /\ WellTyped
        /\ RequestIds \subseteq ExistingIds /\ Undisturbed)
    => LET C == trace.before.instance.comments
           after == session.instance.comments
       IN /\ response.status = 204
          /\ Range(after) = Range(C) \cup RequestIds
          /\ SubSeq(after, 1, Len(C)) = C
          /\ Len(after) = Len(C) + Cardinality(RequestIds \ Range(C))
          /\ (RequestIds \subseteq Range(C) => after = C)
          /\ session.committed = session.instance

C3_Witness ==
    /\ Targets("POST", "comments") /\ request.body.kind = "list" /\ WellTyped
    /\ RequestIds \subseteq ExistingIds /\ Undisturbed
    /\ RequestIds \cap Range(trace.before.instance.comments) # {}
    /\ RequestIds \ Range(trace.before.instance.comments) # {}
    /\ response.status = 204

\* the entries of the request whose resource does not exist, in their order
MissingEntries == SelectSeq(request.body.data, LAMBDA e : ~get_by(e.id))

\* C4: a PATCH of a list of correctly typed identifiers to the to-many
\* relationship, replacement being enabled: if entries name no resource the
\* response is 404 with one error for each such entry, in their order, and
\* the session is unchanged; if all resolve, the collection becomes the list
\* of the request and is committed.
C4_ReplaceToMany ==
    (Targets("PATCH", "comments") /\ request.body.kind = "list" /\ WellTyped
        /\ allow_to_many_replacement /\ request.pre_raise = 0)
    => IF MissingEntries # <<>>
       THEN /\ response.status = 404
            /\ response.errors =
                   [i \in 1..Len(MissingEntries) |->
                       error("not_found", MissingEntries[i].type,
                             MissingEntries[i].id)]
            /\ session = trace.before
       ELSE Undisturbed
            => /\ response.status = 204
               /\ session.instance.comments =
                      [i \in 1..Len(request.body.data) |-> request.body.data[i].id]
               /\ session.committed = session.instance

C4_Witness ==
    /\ Targets("PATCH", "comments") /\ request.body.kind = "list" /\ WellTyped
    /\ allow_to_many_replacement /\ request.pre_raise = 0
    /\ Len(MissingEntries) = 2
    /\ MissingEntries[1] # MissingEntries[2]
    /\ trace.before.instance.comments # <<>>
    /\ response.status = 404

\* C5: a PATCH to the to-one relationship: null clears it; an identifier of
\* another type than the relationship's is answered 409 and an identifier
\* of no resource 404, both leaving the session as it was; any other
\* identifier becomes the value of the relationship.  All of it committed.
C5_ReplaceToOne ==
    (Targets("PATCH", "author") /\ request.pre_raise = 0)
    => IF request.body.kind = "null"
       THEN request.post_raise = 0
            => /\ response.status = 204
               /\ session.instance.author = {}
               /\ session.committed = session.instance
       ELSE (request.body.kind = "object" /\ request.body.data[1] \in Identifiers)
            => LET data == request.body.data[1] IN
               IF data.type # "person"
               THEN response.status = 409 /\ session = trace.before
               ELSE IF data.id \notin ExistingIds
               THEN response.status = 404 /\ session = trace.before
               ELSE Undisturbed
                    => /\ response.status = 204
                       /\ session.instance.author = {data.id}
                       /\ session.committed = session.instance

C5_Witness ==
    /\ Targets("PATCH", "author") /\ request.body.kind = "object"
    /\ request.body.data[1] \in Identifiers
    /\ request.body.data[1].type = "person"
    /\ Undisturbed
    /\ trace.before.instance.author # {}
    /\ trace.before.instance.author # session.instance.author
    /\ session.instance.author = {request.body.data[1].id}
    /\ response.status = 204

C7_RemoveAbsentSucceeds ==
    (Targets("DELETE", "comments") /\ allow_delete_from_to_many_relationships
        /\ request.body.kind = "list" /\ request.body.data # <<>> /\ WellTyped
        /\ RequestIds \subseteq ExistingIds /\ Undisturbed
        /\ RequestIds \cap Range(trace.before.instance.comments) = {})
    => /\ response.status = 204
       /\ response.errors = <<>>
       /\ session.instance.comments = trace.before.instance.comments

C7_Witness ==
    /\ Targets("DELETE", "comments") /\ allow_delete_from_to_many_relationships
    /\ request.body.kind = "list" /\ request.body.data # <<>> /\ WellTyped
    /\ RequestIds \subseteq ExistingIds /\ Undisturbed
    /\ RequestIds \cap Range(trace.before.instance.comments) = {}
    /\ trace.before.instance.comments # <<>>
    /\ ~trace.before.dirty
    /\ response.status = 204

\* ============================================ inclusion of related resources
\* The models of the test suite: an article has comments and an author, a
\* comment an article and an author, a person articles and comments.
Articles == [type : {"article"}, id : 1..NumArticles]
Comments == [type : {"comment"}, id : 1..NumComments]
Persons == [type : {"person"}, id : 1..NumPersons]
Instances == Articles \cup Comments \cup Persons

\* Python's None, the value of a to-one relationship that is not set
None == [type |-> "NoneType"]

\* the relationships of a model and the model each leads to
Related ==
    [article |-> [comments |-> "comment", author |-> "person"],
     comment |-> [article |-> "article", author |-> "person"],
     person |-> [articles |-> "article", comments |-> "comment"]]

ModelNames == DOMAIN Related

\* the foreign keys of the database: the author of every article and
\* comment, the article of every comment
Graphs ==
    [author : [Articles \cup Comments -> Persons \cup {None}],
     article : [Comments -> Articles \cup {None}]]

\* is_like_list(instance, relation) over the three models
to_many(instance, relation) ==
    \/ instance.type = "article" /\ relation = "comments"
    \/ instance.type = "person"

\* getattr(resource, relation), as the set the traversal merges into the
\* next level: the members of a to-many relationship, or the one value of
\* a to-one relationship (None when it is not set)
getattr(g, resource, relation) ==
    CASE resource.type = "article" /\ relation = "comments" ->
            {c \in Comments : g.article[c] = resource}
      [] resource.type = "article" /\ relation = "author" -> {g.author[resource]}
      [] resource.type = "comment" /\ relation = "article" -> {g.article[resource]}
      [] resource.type = "comment" /\ relation = "author" -> {g.author[resource]}
      [] resource.type = "person" /\ relation = "articles" ->
            {a \in Articles : g.author[a] = resource}
      [] resource.type = "person" /\ relation = "comments" ->
            {c \in Comments : g.author[c] = resource}

\* a set in the order a loop goes through it
RECURSIVE Enumerate(_)
Enumerate(S) ==
    IF S = {} THEN <<>>
    ELSE LET x == CHOOSE y \in S : TRUE IN <<x>> \o Enumerate(S \ {x})

\* a relationship path that names, segment after segment, a relationship of
\* the model reached
RECURSIVE ValidPath(_, _)
ValidPath(model, path) ==
    IF path = <<>> THEN TRUE
    ELSE IF Head(path) \notin DOMAIN Related[model] THEN FALSE
    ELSE ValidPath(Related[model][Head(path)], Tail(path))

RelationNamesOfModels == UNION {DOMAIN Related[m] : m \in ModelNames}

Paths ==
    [m \in ModelNames |->
        {p \in UNION {[1..n -> RelationNamesOfModels] : n \in 1..MaxPathLen} :
            ValidPath(m, p)}]

\* the include parameters of a request on a model: none, or one with up to
\* MaxPaths paths
RECURSIVE PathSets(_, _)
PathSets(m, n) ==
    IF n = 0 THEN {{}}
    ELSE LET smaller == PathSets(m, n - 1)
         IN smaller \cup {S \cup {p} : S \in smaller, p \in Paths[m]}

Includes ==
    [m \in ModelNames |->
        {NoInclude} \cup
        {[given |-> TRUE, paths |-> S] : S \in PathSets(m, MaxPaths) \ {{}}}]

\* ---- resources_from_path
\* a test for None that lets None through
never_none(resource) == FALSE

\* "if resource is None: continue"
is_none(resource) == resource = None

\* a traversal that yields the instance it starts from as well
every_resource(first_time, resources) == resources

\* "if first_time: first_time = False  else: yield resource": the first
\* resource the traversal meets, the instance it starts from, is not yielded
yielded_of(first_time, resources) ==
    IF first_time /\ resources # {}
    THEN resources \ {CHOOSE r \in resources : TRUE}
    ELSE resources

\* The loop "while nextlevel": one level of the breadth-first traversal per
\* call. yielded is the sequence of the resources yielded, levels the
\* number of levels gone through, raised whether getattr was called on a
\* resource without the relationship (an AttributeError).
RECURSIVE traverse(_, _, _, _, _, _)
traverse(g, path, nextlevel, seen, first_time, result) ==
    IF nextlevel = {} THEN result
    ELSE LET thislevel == nextlevel
             resources == {r \in thislevel : ~is_none(r) /\ r \notin seen}
             followed == IF path = <<>> THEN {}
                         ELSE {r \in resources :
                                  /\ r # None
                                  /\ Head(path) \in DOMAIN Related[r.type]}
             raises == path # <<>> /\ resources # followed
             neighbours == UNION {getattr(g, r, Head(path)) : r \in followed}
         IN IF raises
            THEN [result EXCEPT !.raised = TRUE, !.levels = @ + 1]
            ELSE traverse(g, IF path = <<>> THEN <<>> ELSE Tail(path),
                          neighbours, seen \cup resources,
                          first_time /\ resources = {},
                          [result EXCEPT
                              !.yielded = @ \o Enumerate(yielded_of(first_time, resources)),
                              !.levels = @ + 1])

\* a traversal that goes along the path a second time from where it ended
along_path_twice(g, instance, path) ==
    traverse(g, path \o path, {instance}, {}, TRUE,
             [yielded |-> <<>>, levels |-> 0, raised |-> FALSE])

\* the generator: the traversal from the instance, nothing seen yet
resources_from_path(g, instance, path) ==
    traverse(g, path, {instance}, {}, TRUE,
             [yielded |-> <<>>, levels |-> 0, raised |-> FALSE])

\* ---- APIBase.resources_to_include
\* the default paths resolved along with the paths of the client
added_to_default(include, default) ==
    (IF include.given THEN include.paths ELSE {})
        \cup (IF default.given THEN default.paths ELSE {})

\* toinclude: the paths of the include parameter, or without one the
\* default includes, or nothing
to_include_paths(include, default) ==
    IF ~include.given /\ ~default.given THEN {}
    ELSE IF ~include.given THEN default.paths
    ELSE include.paths

resources_to_include(g, instance, include, default) ==
    LET along == [path \in to_include_paths(include, default) |->
                     resources_from_path(g, instance, path)]
    IN [resources |-> UNION {Range(along[path].yielded) : path \in DOMAIN along},
        raised |-> \E path \in DOMAIN along : along[path].raised]

\* ---- APIBase.get_all_inclusions and _serialize_many
\* instance_or_instances is the list instances when is_list, else the one
\* member of instances
get_all_inclusions(g, instances, is_list, include, default) ==
    LET each == [resource \in instances |->
                    resources_to_include(g, resource, include, default)]
        to_include ==
            IF is_list
            THEN UNION {each[resource].resources : resource \in instances}
            ELSE each[CHOOSE instance \in instances : TRUE].resources
    IN IF \E resource \in instances : each[resource].raised
       THEN [status |-> 500, included |-> <<>>]
       ELSE [status |-> 200,
             included |-> Enumerate({instance \in to_include : instance # None})]

\* ---- the GET requests that include related resources
\* the request: the instances of the primary data as get_all_inclusions
\* receives them (one instance, None for a to-one relationship without a
\* value, or a list) and the include parameter
Fetch(kind, instances, include) ==
    /\ fetch = NoFetch
    /\ fetch' = [kind |-> kind, instances |-> instances, include |-> include]
    /\ document' = get_all_inclusions(graph, instances, kind = "list",
                                      include, default_includes)
    /\ UNCHANGED <<outside_inclusion, graph, default_includes>>

\* the paths of the request lead along relationships of the model
Resolvable(model, include) ==
    /\ include \in Includes[model]
    /\ \A path \in to_include_paths(include, default_includes) :
           ValidPath(model, path)

\* RelationshipAPI.get on a to-many relationship: _get_collection_helper
\* includes from the primary resource
GetToManyRelationship ==
    /\ fetch = NoFetch
    /\ \E primary \in Instances :
          \E relation \in {n \in DOMAIN Related[primary.type] : to_many(primary, n)} :
            \E include \in Includes[primary.type] :
                /\ Resolvable(primary.type, include)
                /\ Fetch("instance", {primary}, include)

\* RelationshipAPI.get on a to-one relationship: _get_resource_helper
\* includes from the related resource, which may be None
GetToOneRelationship ==
    /\ fetch = NoFetch
    /\ \E primary \in Articles \cup Comments :
          \E relation \in {n \in DOMAIN Related[primary.type] : ~to_many(primary, n)} :
            \E include \in Includes[Related[primary.type][relation]] :
                /\ Resolvable(Related[primary.type][relation], include)
                /\ Fetch("instance", getattr(graph, primary, relation), include)

\* _get_collection_helper of a view that serves resource objects: it
\* includes from the list of the related resources of the page
GetRelatedCollection ==
    /\ fetch = NoFetch
    /\ \E primary \in Instances :
          \E relation \in {n \in DOMAIN Related[primary.type] : to_many(primary, n)} :
            \E include \in Includes[Related[primary.type][relation]] :
                /\ Resolvable(Related[primary.type][relation], include)
                /\ Fetch("list", getattr(graph, primary, relation), include)

\* the document is rendered and sent
RespondFetch ==
    /\ fetch # NoFetch
    /\ fetch' = NoFetch
    /\ document' = NoDocument
    /\ UNCHANGED <<outside_inclusion, graph, default_includes>>

\* the includes the API may be created with: none, or one relationship
DefaultIncludes ==
    {NoInclude} \cup
    {[given |-> TRUE, paths |-> {<<n>>}] : n \in {"comments", "author"}}

InitIncl ==
    /\ allow_to_many_replacement = FALSE
    /\ allow_delete_from_to_many_relationships = FALSE
    /\ session = [committed |-> [comments |-> <<>>, author |-> {}],
                  instance |-> [comments |-> <<>>, author |-> {}],
                  dirty |-> FALSE, active |-> TRUE]
    /\ request = NoRequest
    /\ response = NoResponse
    /\ trace = [before |-> session, events |-> <<>>, was_deleted |-> FALSE,
                after_refusal |-> FALSE]
    /\ graph \in Graphs
    /\ default_includes \in DefaultIncludes
    /\ fetch = NoFetch
    /\ document = NoDocument
    /\ NoPagination
    /\ NoSearch
    /\ NoConcurrency

NextIncl ==
    \/ GetToManyRelationship
    \/ GetToOneRelationship
    \/ GetRelatedCollection
    \/ RespondFetch

SpecIncl == InitIncl /\ [][NextIncl]_vars

\* ====================================================== inclusion claims
\* the request asks for exactly the path, and no default is used instead
Asks(path) == fetch.include = [given |-> TRUE, paths |-> {path}]

\* C8: whatever the primary instances, the relationships and the paths,
\* no instance of the primary data is among the included resources, and
\* no resource is included twice.
C8_NoRootNoDuplicate ==
    (fetch # NoFetch /\ document.status = 200) =>
        /\ Range(document.included) \cap fetch.instances = {}
        /\ Cardinality(Range(document.included)) = Len(document.included)

\* the request includes from article a, whose one comment c has no author,
\* along comments.author
SingleCommentWithoutAuthor(a, c) ==
    /\ fetch.kind = "instance"
    /\ fetch.instances = {a}
    /\ getattr(graph, a, "comments") = {c}
    /\ graph.author[c] = None
    /\ Asks(<<"comments", "author">>)

\* C9 as stated: including comments.author on an article whose single
\* comment has no author gives an empty included list.
C9_IncludedEmpty ==
    \A a \in Articles, c \in Comments :
        SingleCommentWithoutAuthor(a, c) => document.included = <<>>

\* C9: including comments.author on an article whose single comment has no
\* author gives an included list of exactly that comment, the intermediate
\* resource of the path; nothing stands for the author that is not set.
C9_IncludedIsTheComment ==
    \A a \in Articles, c \in Comments :
        SingleCommentWithoutAuthor(a, c) =>
            /\ document.status = 200
            /\ document.included = <<c>>

C9_Witness ==
    \E a \in Articles, c \in Comments :
        /\ SingleCommentWithoutAuthor(a, c)
        /\ document.included = <<c>>

\* the request includes along a.b from one or more instances on all of
\* which the to-one relationship a is not set
FirstSegmentNull(a, b) ==
    /\ fetch # NoFetch
    /\ Asks(<<a, b>>)
    /\ fetch.instances # {}
    /\ \A root \in fetch.instances :
           /\ root # None
           /\ ~to_many(root, a)
           /\ getattr(graph, root, a) = {None}

\* C10: for a path a.b whose to-one relationship a is not set on any of the
\* primary instances, the inclusion raises no error and includes nothing.
C10_NullFirstSegment ==
    \A a, b \in RelationNamesOfModels :
        FirstSegmentNull(a, b) =>
            /\ document.status = 200
            /\ document.included = <<>>

C10_Witness ==
    \E a, b \in RelationNamesOfModels :
        /\ FirstSegmentNull(a, b)
        /\ fetch.kind = "list"
        /\ Cardinality(fetch.instances) > 1
        /\ document = [status |-> 200, included |-> <<>>]

\* what a request of the same primary data includes for an include
\* parameter, the API having no default includes
IncludedFor(include) ==
    get_all_inclusions(graph, fetch.instances, fetch.kind = "list",
                       include, NoInclude)

\* C11: with an include parameter the document includes what the paths of
\* the client lead to, whatever the default includes of the API; without
\* one, what the default includes lead to; with neither, nothing.
C11_ClientOverridesDefault ==
    fetch # NoFetch =>
        /\ fetch.include.given => document = IncludedFor(fetch.include)
        /\ (~fetch.include.given /\ default_includes.given) =>
               document = IncludedFor(default_includes)
        /\ (~fetch.include.given /\ ~default_includes.given) =>
               document = [status |-> 200, included |-> <<>>]

\* the client asks for the author of the comments only, the default
\* includes of the API lead to a comment of the article, and the comment
\* is not included
C11_Witness ==
    /\ fetch # NoFetch
    /\ fetch.include = [given |-> TRUE, paths |-> {<<"author">>}]
    /\ default_includes = [given |-> TRUE, paths |-> {<<"comments">>}]
    /\ \E a \in Articles :
          /\ fetch.instances = {a}
          /\ getattr(graph, a, "comments") # {}
          /\ graph.author[a] # None
          /\ document.included = <<graph.author[a]>>

\* ================================================================ pagination
\* The collection is the ordered result of the query (rows 1, 2, ...). The
\* API is created with a default page_size and a max_page_size; a request
\* carries page[size] and page[number] or leaves them out (the empty set).
\* A link of the page (first, last, prev, next) is one page number, or the
\* empty set for None.
Min(a, b) == IF a < b THEN a ELSE b

\* a quotient rounded down
floor_div(a, b) == a \div b

\* int(math.ceil(num_results / page_size))
ceil_div(a, b) == (a + b - 1) \div b

never_exceeds(page_size, max_page_size) == FALSE

\* "if page_size > self.max_page_size"
exceeds_max(page_size, max_page_size) == page_size > max_page_size

\* query.limit(page_size).offset(offset).all(): the rows after the first
\* offset rows, page_size of them at most
limit_offset(rows, page_size, offset) ==
    SubSeq(rows, offset + 1, Min(offset + page_size, Len(rows)))

page_error(cause) ==
    [status |-> 400, cause |-> cause, items |-> <<>>, num_results |-> 0,
     first |-> {}, last |-> {}, prev |-> {}, next |-> {},
     queries |-> <<>>, limit |-> {}, offset |-> {}]

\* request.args.get(param, default)
args_get(param, default) == IF param = {} THEN default ELSE CHOOSE n \in param : TRUE

\* every row with the number of rows from a query of its own before
counted_all(rows) ==
    [status |-> 200, cause |-> "ok", items |-> rows, num_results |-> Len(rows),
     first |-> {}, last |-> {}, prev |-> {}, next |-> {},
     queries |-> <<"count", "all">>, limit |-> {}, offset |-> {}]

\* page_size = 0: every row from query.all(), their number from len(), no
\* page links. queries is the sequence of the statements sent to the
\* database, limit and offset what the statement of the page carries.
everything(rows) ==
    [status |-> 200, cause |-> "ok", items |-> rows, num_results |-> Len(rows),
     first |-> {}, last |-> {}, prev |-> {}, next |-> {},
     queries |-> <<"all">>, limit |-> {}, offset |-> {}]

\* a next page on every page but the last one
next_unless_last(page_number, last) ==
    IF page_number = last THEN {} ELSE {page_number + 1}

\* "next_ = page_number + 1 if page_number < last else None"
next_page(page_number, last) ==
    IF page_number < last THEN {page_number + 1} ELSE {}

\* an offset of as many pages as the page number
offset_of_pages(page_number, page_size) == page_number * page_size

\* "offset = (page_number - 1) * page_size"
offset_of(page_number, page_size) == (page_number - 1) * page_size

\* The page links and the slice for a positive page size. A negative
\* offset (page number 0) is sent to the database as it is: SQLite reads
\* it as 0, MySQL refuses the statement.
paginate(c, page_size, page_number) ==
    LET num_results == Len(c.rows)
        last == IF num_results = 0 THEN 1 ELSE ceil_div(num_results, page_size)
        offset == offset_of(page_number, page_size)
    IN IF offset < 0 /\ c.backend # "sqlite"
       THEN [page_error("database") EXCEPT
                !.status = 500, !.queries = <<"count", "limit_offset">>,
                !.limit = {page_size}, !.offset = {offset}]
       ELSE [status |-> 200, cause |-> "ok",
             items |-> limit_offset(c.rows, page_size,
                                    IF offset < 0 THEN 0 ELSE offset),
             num_results |-> num_results,
             first |-> {1}, last |-> {last},
             prev |-> IF page_number > 1 THEN {page_number - 1} ELSE {},
             next |-> next_page(page_number, last),
             queries |-> <<"count", "limit_offset">>,
             limit |-> {page_size}, offset |-> {offset}]

\* FetchCollection.get_data, the page of a resource list
get_data(c, r) ==
    LET page_size == args_get(r.size, c.page_size)
        page_number == args_get(r.number, 1)
    IN IF exceeds_max(page_size, c.max_page_size) THEN page_error("max_page_size")
       ELSE IF page_size < 0 THEN page_error("negative_size")
       ELSE IF page_number < 0 THEN page_error("negative_number")
       ELSE IF page_size = 0 /\ page_number > 1 THEN page_error("number_with_size_0")
       ELSE IF page_size = 0 THEN everything(c.rows)
       ELSE paginate(c, page_size, page_number)

\* APIBase._paginated with the PaginationError handler of
\* _get_collection_helper, the page of a to-many relationship or of
\* related resources
_paginated(c, r) ==
    LET page_size == args_get(r.size, c.page_size)
        page_number == args_get(r.number, 1)
    IN IF page_size < 0 THEN page_error("negative_size")
       ELSE IF exceeds_max(page_size, c.max_page_size) THEN page_error("max_page_size")
       ELSE IF page_size = 0 THEN everything(c.rows)
       ELSE IF page_number < 0 THEN page_error("negative_number")
       ELSE paginate(c, page_size, page_number)

PageSizes == {{}} \cup {{n} : n \in (0 - 1)..(MaxPageSize + 1)}
PageNumbers == {{}} \cup {{n} : n \in (0 - 1)..MaxPageNumber}

\* GET /api/person?page[size]=..&page[number]=..
GetCollectionPage ==
    /\ page_request = NoPageRequest
    /\ \E size \in PageSizes, number \in PageNumbers :
          LET r == [endpoint |-> "collection", size |-> size, number |-> number]
          IN /\ page_request' = r
             /\ page' = get_data(collection, r)
    /\ UNCHANGED <<outside_pagination, collection>>

\* GET /api/person/1/relationships/articles?page[size]=..&page[number]=..
GetRelationshipPage ==
    /\ page_request = NoPageRequest
    /\ \E size \in PageSizes, number \in PageNumbers :
          LET r == [endpoint |-> "relationship", size |-> size, number |-> number]
          IN /\ page_request' = r
             /\ page' = _paginated(collection, r)
    /\ UNCHANGED <<outside_pagination, collection>>

RespondPage ==
    /\ page_request # NoPageRequest
    /\ page_request' = NoPageRequest
    /\ page' = NoPage
    /\ UNCHANGED <<outside_pagination, collection>>

\* an API with its page sizes over a collection of up to MaxTotal rows, on
\* SQLite (the test suite) or MySQL (the integration tests)
InitPage ==
    /\ allow_to_many_replacement = FALSE
    /\ allow_delete_from_to_many_relationships = FALSE
    /\ session = [committed |-> [comments |-> <<>>, author |-> {}],
                  instance |-> [comments |-> <<>>, author |-> {}],
                  dirty |-> FALSE, active |-> TRUE]
    /\ request = NoRequest
    /\ response = NoResponse
    /\ trace = [before |-> session, events |-> <<>>, was_deleted |-> FALSE,
                after_refusal |-> FALSE]
    /\ NoInclusion
    /\ collection \in [rows : {[i \in 1..n |-> i] : n \in 0..MaxTotal},
                       page_size : 0..MaxPageSize,
                       max_page_size : 1..MaxPageSize,
                       backend : {"sqlite", "mysql"}]
    /\ page_request = NoPageRequest
    /\ page = NoPage
    /\ NoSearch
    /\ NoConcurrency

NextPage == GetCollectionPage \/ GetRelationshipPage \/ RespondPage

SpecPage == InitPage /\ [][NextPage]_vars

\* ======================================================== pagination claims
\* the page size and the page number the request asks for
Size == args_get(page_request.size, collection.page_size)
Number == args_get(page_request.number, 1)
Total == Len(collection.rows)

C13_BadPageRejected ==
    (page_request # NoPageRequest
        /\ (Size < 0 \/ Number < 1 \/ (Size = 0 /\ Number > 1)))
    => (page.status = 400 /\ page.items = <<>>)

Columns == [Article |-> {"id", "title"}, Person |-> {"pk", "name"}]

\* hasattr(model, fieldname) of Filter.from_dictionary and getattr(obj, name)
\* of get_field: columns and relationships are attributes of a model
model_has(model, fieldname) ==
    \/ fieldname \in Columns[model]
    \/ model = "Article" /\ fieldname = "author"

\* get_related_model(model, relationname): the model a relationship leads
\* to, no model at all for any other name
get_related_model(model, relationname) ==
    IF model = "Article" /\ relationname = "author" THEN {"Person"} ELSE {}

\* OPERATORS, by the number of arguments of each function
OPERATORS == [is_null |-> 1, eq |-> 2, has |-> 3]

\* the one person and the articles a table can hold
ThePerson == [columns |-> [pk |-> {1}, name |-> {1}]]
Rows ==
    [columns : [id : {{i} : i \in 1..NumRows}, title : {{}, {1}}],
     author : {{}, {ThePerson}}]
Tables ==
    {tb \in [1..NumRows -> Rows] :
        \A i, j \in 1..NumRows : tb[i].columns.id = tb[j].columns.id => i = j}

\* an exception leaving a function, or none
raise(exception, field) == [raised |-> exception, field |-> field]
returned == raise("", "")

\* Filter.from_dictionary(model, dictionary); from_dictionaries is the list
\* comprehension over the filters, which stops at the first exception
RECURSIVE from_dictionary(_, _), from_dictionaries(_, _)
leaves_only(model, dictionary) ==
    IF "or" \notin DOMAIN dictionary /\ "and" \notin DOMAIN dictionary
    THEN IF ~model_has(model, dictionary.name)
         THEN raise("UnknownField", dictionary.name)
         ELSE returned
    ELSE returned
from_dictionary(model, dictionary) ==
    IF "or" \notin DOMAIN dictionary /\ "and" \notin DOMAIN dictionary
    THEN IF ~model_has(model, dictionary.name)
         THEN raise("UnknownField", dictionary.name)
         ELSE returned
    ELSE IF "or" \in DOMAIN dictionary
    THEN from_dictionaries(model, dictionary["or"])
    ELSE from_dictionaries(model, dictionary["and"])
from_dictionaries(model, filters) ==
    IF filters = <<>> THEN returned
    ELSE LET first == from_dictionary(model, Head(filters)) IN
         IF first.raised # "" THEN first
         ELSE from_dictionaries(model, Tail(filters))

\* create_operation(model, fieldname, operator, argument), with the call of
\* _sub_operator that the operators has and any make
RECURSIVE create_operation(_, _, _, _)
create_operation(model, fieldname, operator, argument) ==
    IF operator \notin DOMAIN OPERATORS THEN raise("KeyError", operator)
    ELSE IF ~model_has(model, fieldname) THEN raise("AttributeError", fieldname)
    ELSE IF OPERATORS[operator] = 1 THEN returned
    ELSE IF argument = {} THEN raise("ComparisonToNull", fieldname)
    ELSE IF OPERATORS[operator] = 2 THEN returned
    ELSE LET sub == CHOOSE a \in argument : TRUE
             submodel == CHOOSE m \in get_related_model(model, fieldname) : TRUE
         IN create_operation(submodel, sub.name, sub.op, sub.val)

\* create_filter(model, filt); create_filters is a list of filters, or the
\* subfilters of a junction, taken in their order. "if filt.otherfield: val
\* = getattr(model, filt.otherfield)": the other field, which from_dictionary
\* read without looking for it on the model, becomes the argument.
RECURSIVE create_filter(_, _), create_filters(_, _)
compared_to_value(model, filt) ==
    IF "or" \notin DOMAIN filt /\ "and" \notin DOMAIN filt
    THEN create_operation(model, filt.name, filt.op, filt.val)
    ELSE IF "and" \in DOMAIN filt
    THEN create_filters(model, filt["and"])
    ELSE create_filters(model, filt["or"])
create_filter(model, filt) ==
    IF "or" \notin DOMAIN filt /\ "and" \notin DOMAIN filt
    THEN IF filt.field # {}
         THEN LET otherfield == CHOOSE f \in filt.field : TRUE IN
              IF ~model_has(model, otherfield)
              THEN raise("AttributeError", otherfield)
              ELSE create_operation(model, filt.name, filt.op,
                                    {[column |-> otherfield]})
         ELSE create_operation(model, filt.name, filt.op, filt.val)
    ELSE IF "and" \in DOMAIN filt
    THEN create_filters(model, filt["and"])
    ELSE create_filters(model, filt["or"])
create_filters(model, filters) ==
    IF filters = <<>> THEN returned
    ELSE LET first == create_filter(model, Head(filters)) IN
         IF first.raised # "" THEN first
         ELSE create_filters(model, Tail(filters))

\* the rows a filter lets through: the expression create_filter built,
\* evaluated on a row
RECURSIVE matches(_, _)
holds(columns, name, op, val) ==
    IF op = "is_null" THEN columns[name] = {} ELSE columns[name] = val
matches(row, filt) ==
    IF "and" \in DOMAIN filt
    THEN \A i \in 1..Len(filt["and"]) : matches(row, filt["and"][i])
    ELSE IF "or" \in DOMAIN filt
    THEN \E i \in 1..Len(filt["or"]) : matches(row, filt["or"][i])
    ELSE IF filt.op = "has"
    THEN LET sub == CHOOSE a \in filt.val : TRUE IN
         \E person \in row.author : holds(person.columns, sub.name, sub.op, sub.val)
    ELSE IF filt.op # "is_null" /\ filt.field # {}
    THEN /\ row.columns[filt.name] # {}
         /\ row.columns[filt.name] = row.columns[CHOOSE f \in filt.field : TRUE]
    ELSE holds(row.columns, filt.name, filt.op, filt.val)

\* str.split(sep) and str.partition(sep) on a string held as the sequence
\* of its pieces: names, and the separators "," "." and "-"
RECURSIVE partition(_, _)
partition(s, sep) ==
    IF s = <<>> THEN [before |-> <<>>, found |-> FALSE, after |-> <<>>]
    ELSE IF Head(s) = sep
    THEN [before |-> <<>>, found |-> TRUE, after |-> Tail(s)]
    ELSE LET rest == partition(Tail(s), sep) IN
         [rest EXCEPT !.before = <<Head(s)>> \o @]
RECURSIVE split(_, _)
split(s, sep) ==
    LET p == partition(s, sep) IN
    IF p.found THEN <<p.before>> \o split(p.after, sep) ELSE <<p.before>>

\* the string a sequence of name pieces spells
spelt(s) == IF s = <<>> THEN "" ELSE Head(s)

\* collection_parameters(): the sort parameter of the request, a set of at
\* most one string, as the value search() is given: None (no element), or
\* a list of (symbol, field_name)
symbol_and_name(value) ==
    IF value # <<>> /\ Head(value) = "-"
    THEN [symbol |-> "-", field_name |-> Tail(value)]
    ELSE [symbol |-> "+", field_name |-> value]
collection_parameters(param) ==
    IF param = {} \/ param = {<<>>} THEN {<<>>}
    ELSE IF param = {<<"0">>} THEN {}
    ELSE LET values == split(CHOOSE s \in param : TRUE, ",") IN
         {[i \in 1..Len(values) |-> symbol_and_name(values[i])]}

\* get_field(obj, name) of search(): the attribute, or BadRequest
get_field(obj, name) ==
    IF model_has(obj, name) THEN returned ELSE raise("BadRequest", name)

\* one turn of the loop over sort: the while loop over the dots of
\* field_name, then get_field. aliased() is handed what get_related_model
\* returned and accepts nothing but a model.
RECURSIVE order_key(_, _, _, _)
order_key(related_model, field_name, direction_name, joins) ==
    IF "." \in Range(field_name)
    THEN LET p == partition(field_name, ".")
             target == get_related_model(related_model, spelt(p.before))
         IN IF target = {} THEN raise("Exception", spelt(p.before))
            ELSE order_key(CHOOSE m \in target : TRUE, p.after, direction_name,
                           Append(joins, spelt(p.before)))
    ELSE LET field == get_field(related_model, spelt(field_name)) IN
         IF field.raised # "" THEN field
         ELSE [raised |-> "", field |-> spelt(field_name), joins |-> joins,
               direction |-> direction_name]

\* the loop over sort: the order_by clauses, or the first exception
RECURSIVE order_keys(_, _, _)
order_keys(model, sort, order_by) ==
    IF sort = <<>> THEN [raised |-> "", field |-> "", order_by |-> order_by]
    ELSE LET key == order_key(model, Head(sort).field_name,
                              IF Head(sort).symbol = "+" THEN "asc" ELSE "desc",
                              <<>>)
         IN IF key.raised # ""
            THEN [raised |-> key.raised, field |-> key.field, order_by |-> <<>>]
            ELSE order_keys(model, Tail(sort), Append(order_by,
                     [joins |-> key.joins, field |-> key.field,
                      direction |-> key.direction]))

\* primary_key_names(model) as the clauses of the default ordering
pk_order == <<[joins |-> <<>>, field |-> "id", direction |-> "asc"]>>
ordered_unless_sorted(sort) == pk_order
default_order(sort) == IF sort # {} THEN pk_order ELSE <<>>

\* the query search() returns, or the exception it raises
Query(filters, order_by) == [filters |-> filters, order_by |-> order_by]
search(model, filters, sort) ==
    LET parsed == from_dictionaries(model, filters)
        built == IF parsed.raised # "" THEN parsed
                 ELSE create_filters(model, filters)
    IN
    IF built.raised = "UnknownField"
    THEN [raised |-> "BadRequest", field |-> built.field,
          details |-> "Invalid filter object: No such field",
          query |-> Query(<<>>, <<>>)]
    ELSE IF built.raised # ""
    THEN [raised |-> "BadRequest", field |-> "",
          details |-> "Unable to construct query", query |-> Query(<<>>, <<>>)]
    ELSE IF sort # {} /\ sort # {<<>>}
    THEN LET keys == order_keys(model, CHOOSE s \in sort : TRUE, <<>>) IN
         IF keys.raised = "BadRequest"
         THEN [raised |-> "BadRequest", field |-> keys.field,
               details |-> "Invalid sorting: No such field",
               query |-> Query(<<>>, <<>>)]
         ELSE IF keys.raised # ""
         THEN [raised |-> keys.raised, field |-> keys.field, details |-> "",
               query |-> Query(<<>>, <<>>)]
         ELSE [raised |-> "", field |-> "", details |-> "",
               query |-> Query(filters, keys.order_by)]
    ELSE [raised |-> "", field |-> "", details |-> "",
          query |-> Query(filters, default_order(sort))]

\* query.all(): the rows of the table, in the order the table holds them,
\* that pass every filter and have a row to join for every relationship an
\* order_by clause crosses, sorted by the order_by clauses. NULL sorts first.
sort_value(row, clause) ==
    LET value == IF clause.joins = <<>> THEN row.columns[clause.field]
                 ELSE (CHOOSE person \in row.author : TRUE).columns[clause.field]
    IN IF value = {} THEN 0 ELSE CHOOSE v \in value : TRUE
RECURSIVE before(_, _, _)
before(a, b, order_by) ==
    IF order_by = <<>> THEN FALSE
    ELSE LET clause == Head(order_by)
             x == sort_value(a, clause)
             y == sort_value(b, clause)
         IN IF x = y THEN before(a, b, Tail(order_by))
            ELSE IF clause.direction = "asc" THEN x < y ELSE x > y
RECURSIVE insert(_, _, _)
insert(row, sorted, order_by) ==
    IF sorted = <<>> THEN <<row>>
    ELSE IF before(row, Head(sorted), order_by) THEN <<row>> \o sorted
    ELSE <<Head(sorted)>> \o insert(row, Tail(sorted), order_by)
RECURSIVE sorted_by(_, _)
sorted_by(rows, order_by) ==
    IF rows = <<>> THEN <<>>
    ELSE insert(rows[Len(rows)], sorted_by(SubSeq(rows, 1, Len(rows) - 1), order_by),
                order_by)
all(tb, query) ==
    LET selected == SelectSeq(tb, LAMBDA row :
            /\ \A i \in 1..Len(query.filters) : matches(row, query.filters[i])
            /\ \A i \in 1..Len(query.order_by) :
                   query.order_by[i].joins # <<>> => row.author # {})
    IN sorted_by(selected, query.order_by)

\* FetchView.dispatch_request around the search of FetchCollection.get_data:
\* BadRequest becomes error_response(e.http_code, detail=e.details), any
\* other exception leaves the view and the server answers 500, and the
\* query of a search that returned is executed.
fetch_collection(tb, filters, param) ==
    LET found == search("Article", filters, collection_parameters(param)) IN
    IF found.raised = "BadRequest"
    THEN [status |-> 400, detail |-> found.details, field |-> found.field,
          executed |-> FALSE, order_by |-> <<>>, rows |-> <<>>,
          members |-> {"errors", "jsonapi"}]
    ELSE IF found.raised # ""
    THEN [status |-> 500, detail |-> found.raised, field |-> found.field,
          executed |-> FALSE, order_by |-> <<>>, rows |-> <<>>, members |-> {}]
    ELSE [status |-> 200, detail |-> "", field |-> "", executed |-> TRUE,
          order_by |-> found.query.order_by, rows |-> all(tb, found.query),
          members |-> {"jsonapi", "data", "links", "meta"}]

\* The filter objects of a request: leaves over resolved and unresolved
\* names, junctions of one to MaxFilters of them, to the depth MaxDepth.
Leaf(name, op, val) == [name |-> name, op |-> op, val |-> val, field |-> {}]
Leaves ==
    {Leaf("title", "is_null", {}), Leaf("bogus", "eq", {1}),
     Leaf("bogus2", "is_null", {}), Leaf("title", "frob", {1}),
     Leaf("author", "has", {Leaf("bogus", "eq", {1})})}
ListsOf(S) == UNION {[1..n -> S] : n \in 1..MaxFilters}
RECURSIVE FilterObjects(_)
FilterObjects(depth) ==
    IF depth = 0 THEN Leaves
    ELSE LET below == ListsOf(FilterObjects(depth - 1)) IN
         Leaves \cup {[and |-> l] : l \in below} \cup {[or |-> l] : l \in below}
FilterLists ==
    {<<>>} \cup ListsOf(FilterObjects(MaxDepth - 2))
           \cup {<<f>> : f \in FilterObjects(MaxDepth - 1)}

\* The sort parameters of a request: absent, empty, "0", or one to MaxSortKeys
\* keys, each a path of at most MaxPathLen names, with or without "-".
Terminals == {"id", "title", "pk", "name", "unknown"}
NonTerminals == {"author", "nowhere"}
RECURSIVE SortPaths(_)
SortPaths(n) ==
    IF n = 1 THEN {<<name>> : name \in Terminals}
    ELSE SortPaths(n - 1) \cup
         {<<name, ".">> \o path : name \in NonTerminals, path \in SortPaths(n - 1)}
SortKeys ==
    SortPaths(MaxPathLen) \cup {<<"-">> \o path : path \in SortPaths(MaxPathLen)}
RECURSIVE SortStrings(_)
SortStrings(n) ==
    IF n = 1 THEN SortKeys
    ELSE SortStrings(n - 1) \cup
         {key \o <<",">> \o s : key \in SortKeys, s \in SortStrings(n - 1)}
SortParams == {{}, {<<>>}, {<<"0">>}} \cup {{s} : s \in SortStrings(MaxSortKeys)}

\* GET of the collection with filter objects
SearchFiltered ==
    /\ search_request = NoSearchRequest
    /\ \E filters \in FilterLists \ {<<>>} :
        /\ search_request' = [filters |-> filters, sort |-> {}]
        /\ search_result' = fetch_collection(table, filters, {})
    /\ UNCHANGED <<table, outside_search>>

\* GET of the collection with or without a sort parameter
SearchSorted ==
    /\ search_request = NoSearchRequest
    /\ \E param \in SortParams :
        /\ search_request' = [filters |-> <<>>, sort |-> param]
        /\ search_result' = fetch_collection(table, <<>>, param)
    /\ UNCHANGED <<table, outside_search>>

\* the response has been sent
RespondSearch ==
    /\ search_request # NoSearchRequest
    /\ search_request' = NoSearchRequest
    /\ search_result' = NoResult
    /\ UNCHANGED <<table, outside_search>>

InitSearch ==
    /\ allow_to_many_replacement = FALSE
    /\ allow_delete_from_to_many_relationships = FALSE
    /\ session = [committed |-> [comments |-> <<>>, author |-> {}],
                  instance |-> [comments |-> <<>>, author |-> {}],
                  dirty |-> FALSE, active |-> TRUE]
    /\ request = NoRequest
    /\ response = NoResponse
    /\ trace = [before |-> session, events |-> <<>>, was_deleted |-> FALSE,
                after_refusal |-> FALSE]
    /\ NoInclusion
    /\ NoPagination
    /\ table \in Tables
    /\ search_request = NoSearchRequest
    /\ search_result = NoResult
    /\ NoConcurrency

NextSearch == SearchFiltered \/ SearchSorted \/ RespondSearch

SpecSearch == InitSearch /\ [][NextSearch]_vars

\* ---- filter objects that compare with another field or with no value
\* {"name": .., "op": .., "field": ..}
LeafOther(name, op, otherfield) ==
    [name |-> name, op |-> op, val |-> {}, field |-> {otherfield}]
ComparingLeaves ==
    {Leaf("title", "is_null", {}), Leaf("title", "eq", {1}),
     Leaf("title", "eq", {}), Leaf("author", "has", {}),
     Leaf("bogus", "eq", {1}),
     LeafOther("title", "eq", "id"), LeafOther("title", "eq", "nofield"),
     LeafOther("title", "is_null", "nofield")}
ComparingFilters ==
    ListsOf(ComparingLeaves)
        \cup {<<[and |-> l]>> : l \in ListsOf(ComparingLeaves)}
        \cup {<<[or |-> l]>> : l \in ListsOf(ComparingLeaves)}

\* GET of the collection with filter objects that compare
SearchCompared ==
    /\ search_request = NoSearchRequest
    /\ \E filters \in ComparingFilters :
        /\ search_request' = [filters |-> filters, sort |-> {}]
        /\ search_result' = fetch_collection(table, filters, {})
    /\ UNCHANGED <<table, outside_search>>

NextCompare == SearchCompared \/ RespondSearch

SpecCompare == InitSearch /\ [][NextCompare]_vars

\* ============================================================ search claims

\* the leaves of a list of filter objects in the order a reader meets them,
\* the value of a "has" leaf not being one of them
RECURSIVE LeavesOf(_)
LeavesOf(filters) ==
    IF filters = <<>> THEN <<>>
    ELSE LET f == Head(filters) IN
         (IF "and" \in DOMAIN f THEN LeavesOf(f["and"])
          ELSE IF "or" \in DOMAIN f THEN LeavesOf(f["or"])
          ELSE <<f>>) \o LeavesOf(Tail(filters))

\* the names among them that are neither a column nor a relationship of
\* Article
Unresolved(filters) ==
    SelectSeq(LeavesOf(filters), LAMBDA leaf : leaf.name \notin {"id", "title", "author"})

Rejected(status) == search_result.status = status /\ ~search_result.executed

\* C15 as stated: whichever leaf has the unresolved name, the request fails
\* with 400 and the detail names the field of that leaf.
C15_NamesEveryUnresolvedField ==
    \A i \in 1..Len(Unresolved(search_request.filters)) :
        /\ Rejected(400)
        /\ search_result.field = Unresolved(search_request.filters)[i].name

\* C15: a filter list with a leaf whose name does not resolve, at whatever
\* depth and position, is rejected with 400 without the query being
\* executed, and the detail names the field of the first such leaf.
C15_NamesFirstUnresolvedField ==
    Unresolved(search_request.filters) # <<>> =>
        /\ Rejected(400)
        /\ search_result.detail = "Invalid filter object: No such field"
        /\ search_result.field = Head(Unresolved(search_request.filters)).name

\* the second filter object nests the only unresolved name two junctions
\* deep, behind a filter object that resolves but has an unknown operator
C15_Witness ==
    /\ Len(search_request.filters) = 1
    /\ \E junction \in {"and", "or"} :
        /\ junction \in DOMAIN search_request.filters[1]
        /\ LET subfilters == search_request.filters[1][junction] IN
           /\ Len(subfilters) = 2
           /\ subfilters[1] = Leaf("title", "frob", {1})
           /\ "or" \in DOMAIN subfilters[2]
           /\ subfilters[2]["or"] = <<Leaf("title", "is_null", {}), Leaf("bogus2", "is_null", {})>>
    /\ Rejected(400)
    /\ search_result.field = "bogus2"

\* the names of a sort key, its "-" and its dots left out
Names(key) == SelectSeq(key, LAMBDA piece : piece \notin {"-", "."})

\* the keys of the sort parameter of the request
KeysOf(param) == IF param = {} THEN <<>> ELSE split(CHOOSE s \in param : TRUE, ",")

\* a key all of whose names but the last are relationships and whose last
\* name is a column: id, title, author.pk and author.name
Resolves(key) ==
    \/ Names(key) \in {<<"id">>, <<"title">>}
    \/ Names(key) \in {<<"author", "pk">>, <<"author", "name">>}

UnresolvedKeys(param) == SelectSeq(KeysOf(param), LAMBDA key : ~Resolves(key))

\* C16: a sort parameter with a key that names an unknown field or an
\* unknown relationship at some segment is rejected with 400 without the
\* query being executed, and the detail carries the last name of the first
\* such key.
C16_UnknownSortSegment ==
    (search_request.sort \notin {{}, {<<>>}, {<<"0">>}, {<<"none">>}}
        /\ UnresolvedKeys(search_request.sort) # <<>>) =>
        LET names == Names(Head(UnresolvedKeys(search_request.sort))) IN
        /\ Rejected(400)
        /\ search_result.detail = "Invalid sorting: No such field"
        /\ search_result.field = names[Len(names)]

\* C16, the part that holds: when every name of the key before the last is
\* a relationship, the unknown last name is rejected with 400 and named.
C16_UnknownTerminalSegment ==
    (search_request.sort \notin {{}, {<<>>}, {<<"0">>}, {<<"none">>}}
        /\ UnresolvedKeys(search_request.sort) # <<>>) =>
        LET names == Names(Head(UnresolvedKeys(search_request.sort))) IN
        (\A i \in 1..(Len(names) - 1) : names[i] = "author" /\ i = 1) =>
            /\ Rejected(400)
            /\ search_result.detail = "Invalid sorting: No such field"
            /\ search_result.field = names[Len(names)]

\* rows in ascending order of their primary key
AscendingById(rows) ==
    \A i, j \in 1..Len(rows) :
        i < j => \A x \in rows[i].columns.id, y \in rows[j].columns.id : x < y

\* C17: without a sort parameter the query is ordered by the primary key
\* ascending and nothing else, so the rows come back in that order however
\* the table holds them; with the sort parameter "0" the query has no
\* ordering at all and the rows come back as the table holds them.
C17_DefaultAndDisabledOrder ==
    /\ (search_request.sort = {} /\ search_result.status = 200) =>
        /\ search_result.order_by = <<[joins |-> <<>>, field |-> "id", direction |-> "asc"]>>
        /\ AscendingById(search_result.rows)
    /\ search_request.sort = {<<"0">>} =>
        /\ search_result.status = 200
        /\ search_result.order_by = <<>>
        /\ search_result.rows = table

\* "0" on a table held in descending order: the rows come back descending
C17_Witness ==
    /\ search_request.sort = {<<"0">>}
    /\ search_result.executed
    /\ Len(search_result.rows) = NumRows
    /\ ~AscendingById(search_result.rows)

\* no sort parameter on a table held in descending order: ascending rows
C17_WitnessDefault ==
    /\ search_request = [filters |-> <<>>, sort |-> {}]
    /\ search_result.executed
    /\ ~AscendingById(table)
    /\ Len(search_result.rows) = NumRows

\* ===================================== claims on refusals and processors

\* the database refused what the request sent to it
Refused == request.fails # <<>> /\ response.cause = "integrity"

\* a request that adds existing comments, with no processor that raises
\* and a database that accepts what it is sent
ValidPost ==
    /\ Targets("POST", "comments")
    /\ request.body.kind = "list"
    /\ WellTyped
    /\ RequestIds \subseteq ExistingIds
    /\ request.pre_raise = 0 /\ request.post_raise = 0
    /\ request.fails = <<>>

\* C18: when the database refuses a flush or commit of a request, the
\* session is rolled back before the response is built (the rollback is the
\* last call made, and the session holds what the database held before the
\* request), the status is 409 if the message has a conflict indicator and
\* 400 otherwise, the session is active after every request, and a valid
\* request that follows a refused one succeeds and is committed.
C18_RollbackOnIntegrityError ==
    /\ session.active
    /\ Refused =>
        /\ trace.events # <<>> /\ trace.events[Len(trace.events)] = "rollback"
        /\ session.instance = trace.before.committed
        /\ session.committed = trace.before.committed
        /\ response.status =
              IF "UNIQUE constraint failed" \in Range(request.fails) THEN 409 ELSE 400
    /\ (trace.after_refusal /\ ValidPost) =>
        /\ response.status = 204
        /\ RequestIds \subseteq Range(session.committed.comments)

\* after a refused request, a POST adds a comment that was not related
C18_Witness ==
    /\ trace.after_refusal
    /\ ValidPost
    /\ response.status = 204
    /\ \E id \in RequestIds : id \notin Range(trace.before.committed.comments)

\* a refusal with a conflict indicator, answered 409
C18_WitnessConflict ==
    /\ Refused
    /\ response.status = 409
    /\ trace.before.instance = trace.before.committed

\* the preprocessors of the request are reached and one of them raises
PreprocessorRaises ==
    /\ request.method \in {"POST", "PATCH", "DELETE"}
    /\ request.pre_raise > 0
    /\ request.body.kind # "undecodable"
    /\ request.method = "DELETE" => allow_delete_from_to_many_relationships

\* the postprocessors of the request are reached and one of them raises
PostprocessorRaises ==
    /\ request.post_raise > 0
    /\ "post" \in Range(trace.events)

\* the response is one error with the status and detail of the exception
OneErrorOf(exception) ==
    /\ response.status = exception.status
    /\ Len(response.errors) = 1
    /\ response.errors[1].detail = exception.detail

\* C19: when processor number k raises ProcessingException(status, detail),
\* the processors after it are not invoked and nothing else is called after
\* it, the response is one error with that status and detail, and when it
\* is a preprocessor the session and the database are as before the request.
C19_ProcessingExceptionShortCircuits ==
    /\ PreprocessorRaises =>
        /\ trace.events = [i \in 1..request.pre_raise |-> "pre"]
        /\ OneErrorOf(request.exception)
        /\ session = trace.before
    /\ PostprocessorRaises =>
        /\ Len(SelectSeq(trace.events, LAMBDA e : e = "post")) = request.post_raise
        /\ trace.events[Len(trace.events)] = "post"
        /\ OneErrorOf(request.exception)

\* the first of the two preprocessors raises with status 403 on a request
\* that would have added a comment
C19_Witness ==
    /\ Targets("POST", "comments")
    /\ request.pre_raise = 1
    /\ request.exception.status = 403
    /\ response.status = 403
    /\ trace.events = <<"pre">>
    /\ \E id \in RequestIds : id \notin Range(session.committed.comments)

\* the first of the two postprocessors raises
C19_WitnessPost ==
    /\ request.post_raise = 1
    /\ request.exception.status = 403
    /\ response.status = 403
    /\ "post" \in Range(trace.events)

\* ======================================================= document claims

\* C20 for one response with its status and the top-level members of its
\* document: never both data and errors; a success document (204 No Content
\* has none) has data and no errors, an error response has errors and no
\* data, and both have the jsonapi object.
DataOrErrors(status, members) ==
    /\ ~({"data", "errors"} \subseteq members)
    /\ (status >= 200 /\ status < 300 /\ status # 204) =>
          ("data" \in members /\ "errors" \notin members /\ "jsonapi" \in members)
    /\ status >= 400 =>
          ("errors" \in members /\ "data" \notin members /\ "jsonapi" \in members)

\* C20: the response to every request on a relationship is a document with
\* data or a document with errors, never both, with the jsonapi object.
C20_DataXorErrors ==
    request # NoRequest => DataOrErrors(response.status, response.members)

\* C20 for the collection: the response to every GET with filter objects or
\* a sort parameter is a document with data or a document with errors.
C20_DataXorErrorsFetched ==
    search_request # NoSearchRequest =>
        DataOrErrors(search_result.status, search_result.members)

\* C20, the part that holds: no document has both data and errors, and
\* every response the views build with error_response or errors_response
\* has errors, the jsonapi object and no data.
C20_NeverBoth ==
    /\ ~({"data", "errors"} \subseteq response.members)
    /\ (response.status >= 400 /\ response.cause # "crash") =>
          response.members = {"errors", "jsonapi"}

\* ================================== claims on removal and on the commit

\* a DELETE on the to-many relationship that got as far as its commit
DeleteCommitted ==
    /\ Targets("DELETE", "comments")
    /\ "commit" \in Range(trace.events)

\* C22: the was_deleted flag of a DELETE on the to-many relationship is set
\* exactly when a resource of the request was in the collection before the
\* request (and so was removed by it), and the request is answered 204
\* exactly when the flag is set, whatever else was pending in the session.
C22_ChangedIffRemoved ==
    DeleteCommitted =>
        /\ trace.was_deleted <=>
              RequestIds \cap Range(trace.before.instance.comments) # {}
        /\ request.post_raise = 0 => (response.status = 204 <=> trace.was_deleted)

\* C22, the part that holds: a DELETE that removes a resource reports the
\* change, and the answer follows the flag.
C22_RemovedImpliesChanged ==
    DeleteCommitted =>
        /\ RequestIds \cap Range(trace.before.instance.comments) # {}
              => trace.was_deleted
        /\ request.post_raise = 0 => (response.status = 204 <=> trace.was_deleted)

\* C30: when a postprocessor of a POST, PATCH or DELETE on a relationship
\* raises, the database holds what it held before the request.
C30_CommitAfterPostprocessors ==
    PostprocessorRaises => session.committed = trace.before.committed

\* C30 for POST and PATCH, where it holds: the commit is the last call, made
\* after the last postprocessor, and a postprocessor that raises leaves the
\* database as it was.
C30_CommitAfterPostprocessorsOfPostAndPatch ==
    request.method \in {"POST", "PATCH"} =>
        /\ PostprocessorRaises => session.committed = trace.before.committed
        /\ "commit" \in Range(trace.events) =>
              /\ trace.events[Len(trace.events)] = "commit"
              /\ Len(SelectSeq(trace.events, LAMBDA e : e = "post")) = NumProcessors


\* ============================================ claims on the traversal
\* the instances reached from a frontier at each depth of the path, every
\* instance of a frontier being followed along the next segment
RECURSIVE reached(_, _, _)
reached(g, frontier, path) ==
    IF path = <<>> THEN {}
    ELSE LET neighbours ==
                 UNION {getattr(g, r, Head(path)) : r \in frontier \ {None}}
         IN neighbours \cup reached(g, neighbours, Tail(path))

\* the non-null, non-root instances reached from the roots of the request
ReachedFromRoots(path) ==
    UNION {reached(graph, {root}, path) \ {None, root} :
              root \in fetch.instances \ {None}}

\* the request was answered with a compound document for exactly one path
IncludedAlong(path) ==
    /\ fetch # NoFetch
    /\ Asks(path)
    /\ document.status = 200

\* C23: for one inclusion path the included set is exactly the set of
\* non-null, non-root instances reached at each depth from every root,
\* every instance of a frontier being expanded along the next segment, also
\* one already visited at a shallower depth.
C23_IncludedIsReached ==
    \A model \in ModelNames : \A path \in Paths[model] :
        IncludedAlong(path) =>
            Range(document.included) = ReachedFromRoots(path)

\* C23, the part that holds: nothing is included that is not reached, and
\* on a path of at most two segments everything reached is included.
C23_IncludedAmongReached ==
    \A model \in ModelNames : \A path \in Paths[model] :
        IncludedAlong(path) =>
            /\ Range(document.included) \subseteq ReachedFromRoots(path)
            /\ Len(path) <= 2 =>
                   Range(document.included) = ReachedFromRoots(path)

\* the levels the traversal goes through for a root and a path
LevelsOf(root, path) == resources_from_path(graph, root, path).levels

\* the graph has a cycle through the root: its author wrote it
Cyclic(root) ==
    /\ root \in Articles
    /\ graph.author[root] # None
    /\ root \in getattr(graph, graph.author[root], "articles")

\* C29: the traversal of an inclusion path ends after at most one level
\* more than the path has segments, whatever the graph.
C29_LevelsBounded ==
    fetch # NoFetch =>
        \A root \in fetch.instances :
            \A path \in to_include_paths(fetch.include, default_includes) :
                LevelsOf(root, path) <= Len(path) + 1

\* a path that comes back to its root and goes on is traversed to its end
C29_Witness ==
    /\ fetch # NoFetch
    /\ Asks(<<"author", "articles", "author">>)
    /\ \E root \in fetch.instances :
          /\ Cyclic(root)
          /\ LevelsOf(root, <<"author", "articles", "author">>) >= 3


\* ============================================= claims on the page result
\* a page of a positive page size was produced
Paged == page_request # NoPageRequest /\ page.status = 200 /\ Size > 0

\* the number of the last page, as the page result has it
Last == CHOOSE last \in page.last : TRUE

C27_SizeZeroReturnsAllUncounted ==
    (page_request # NoPageRequest /\ Size = 0) =>
        /\ "count" \notin Range(page.queries)
        /\ page.status = 200 =>
              /\ page.items = collection.rows
              /\ page.first = {} /\ page.last = {}
              /\ page.prev = {} /\ page.next = {}
              /\ page.num_results = Len(page.items)
              /\ page.queries = <<"all">>
              /\ page.limit = {} /\ page.offset = {}

\* every row of a collection of more rows than max_page_size, on an API
\* whose default page size is 0
C27_Witness ==
    /\ page_request # NoPageRequest
    /\ page_request.size = {} /\ collection.page_size = 0
    /\ Total > collection.max_page_size
    /\ page.status = 200
    /\ Len(page.items) = Total

\* the bounds of the slice: the offset of the statement, and the offset
\* plus its limit
Start == CHOOSE n \in page.offset : TRUE
End == Start + (CHOOSE n \in page.limit : TRUE)

\* a page of a number from 1 to last
WithinPages == Paged /\ 1 <= Number /\ Number <= Last

\* C28 as stated: for a page number from 1 to last the bounds of the slice,
\* start (number-1)*size and end number*size, lie within the rows.
C28_SliceWithinTotal ==
    WithinPages =>
        /\ Start = (Number - 1) * Size /\ End = Number * Size
        /\ 0 <= Start /\ Start <= End /\ End <= Total

\* C28: for a page number from 1 to last the start (number-1)*size is not
\* negative and, when there are rows, below their number; the end
\* number*size may lie beyond the rows, and the page is the rows from the
\* start to the end or to the last row.
C28_StartWithinTotal ==
    WithinPages =>
        /\ Start = (Number - 1) * Size /\ End = Number * Size
        /\ 0 <= Start
        /\ Total > 0 => Start < Total
        /\ Total = 0 => Start = 0
        /\ page.items = SubSeq(collection.rows, Start + 1, Min(End, Total))
        /\ Total > 0 => page.items # <<>>

\* a last page whose end lies beyond the rows
C28_Witness ==
    /\ WithinPages
    /\ Number = Last /\ Number > 1
    /\ End > Total
    /\ page.items # <<>>


\* ================================== claims on the other field and on NULL
\* the leaves whose other field is no attribute of Article
UnresolvedOther(filters) ==
    SelectSeq(LeavesOf(filters),
              LAMBDA leaf : leaf.field # {} /\ leaf.field \cap {"id", "title", "author"} = {})

\* C25 as stated: a leaf whose field names no field of the model fails the
\* request with the unknown-field 400 whose detail names that field.
C25_UnknownOtherFieldNamed ==
    \A i \in 1..Len(UnresolvedOther(search_request.filters)) :
        /\ Rejected(400)
        /\ search_result.detail = "Invalid filter object: No such field"
        /\ search_result.field \in UnresolvedOther(search_request.filters)[i].field

\* C25: a leaf whose field names no field of the model fails the request
\* with 400 without the query being executed, whatever its operator; the
\* detail never names that field: it is the unknown-field detail of the
\* first unresolved name when a leaf has one, and else the detail of a query
\* that could not be constructed, which names no field.
C25_UnknownOtherFieldNotNamed ==
    UnresolvedOther(search_request.filters) # <<>> =>
        /\ Rejected(400)
        /\ IF Unresolved(search_request.filters) # <<>>
           THEN /\ search_result.detail = "Invalid filter object: No such field"
                /\ search_result.field = Head(Unresolved(search_request.filters)).name
           ELSE /\ search_result.detail = "Unable to construct query"
                /\ search_result.field = ""

\* the only leaf tests a column for NULL and carries an unknown other field
C25_Witness ==
    /\ search_request.filters = <<LeafOther("title", "is_null", "nofield")>>
    /\ Rejected(400)
    /\ search_result.detail = "Unable to construct query"

\* the leaves that give an operator of two or three arguments no value
\* and no other field, on a name and an operator that exist
ComparedToNull(filters) ==
    SelectSeq(LeavesOf(filters),
              LAMBDA leaf : /\ leaf.name \in {"id", "title", "author"}
                            /\ leaf.op \in DOMAIN OPERATORS
                            /\ OPERATORS[leaf.op] >= 2
                            /\ leaf.val = {} /\ leaf.field = {})

\* C26: a request whose first failing leaf gives an operator of two or three
\* arguments no value fails with 400 and the detail of the comparison to
\* NULL, which is not the detail of a query that could not be constructed.
C26_ComparisonToNullDistinct ==
    (/\ search_request # NoSearchRequest
     /\ search_request.filters # <<>>
     /\ ComparedToNull(search_request.filters) # <<>>
     /\ Head(LeavesOf(search_request.filters))
            = Head(ComparedToNull(search_request.filters))
     /\ Unresolved(search_request.filters) = <<>>)
    => /\ Rejected(400)
       /\ search_result.detail
              = "To compare a value to NULL, use the is_null/is_not_null operators."

\* C26, the parts that hold: such a request is rejected with 400, and a
\* request whose leaves all use operators of one argument is not rejected
\* for a comparison to NULL.
C26_RejectedAndNeverForOneArgument ==
    search_request # NoSearchRequest =>
        /\ (ComparedToNull(search_request.filters) # <<>>) => Rejected(400)
        /\ (\A i \in 1..Len(LeavesOf(search_request.filters)) :
               LET leaf == LeavesOf(search_request.filters)[i] IN
               /\ leaf.op = "is_null" /\ leaf.name = "title" /\ leaf.field = {})
           => search_result.status = 200


\* ======================================== claims on requests in flight
\* C21: the session of a request is used by that request alone: no request
\* flushes, commits or rolls back a change pending from another request,
\* and none sees one.
C21_SessionExclusive ==
    \A t \in Threads : threads[t].took = {} /\ ~threads[t].saw

\* C21, what holds: a request that was in flight alone from its start to
\* its end touches and sees no change of another request.
C21_ExclusiveWhenAlone ==
    \A t \in Threads :
        ~threads[t].overlapped => (threads[t].took = {} /\ ~threads[t].saw)

====
